---- MODULE Spec2Model ----
(***************************************************************************)
(* Model of the toy-editor timeline core: the Edit Operations over the     *)
(* clip list held by the state manager, and the VirtualTimelineManager     *)
(* (global time <-> clip mapping, master clock, subscriber channels).      *)
(*                                                                         *)
(* Time is fixed point: one unit is 0.5 ms, so 0.001 s = 2 units,          *)
(* 0.1 s = 200 units and 3 s = 6000 units.                                 *)
(***************************************************************************)
EXTENDS Integers, Sequences, FiniteSets, TLC

VARIABLES
    heap,       \* the SceneEditorCell objects, a sequence indexed by reference
    smCells,    \* SimpleStateManager.canvas.sceneEditor.cells: references into heap
    canvasCells, \* canvas.sceneEditor.cells of the TimelineProvider state: references
    nextId,     \* number of the next generated cell id
    vtm,        \* the fields of the VirtualTimelineManagerImpl instance
    raf,        \* requestAnimationFrame callbacks pending in the browser, oldest first
    sinceFrame, \* performance.now() - lastFrameTime: the time let pass since the
                \* manager last took its frame timestamp
    subs,       \* behaviour of every registered subscriber callback
    log,        \* what the last handler did: callback invocations and clock (re)scheduling
    lastOp,     \* the last operation and its arguments
    ui,         \* the pointer gesture in progress and what the components keep for it
    phase       \* "interactive" while external calls are made, "handsoff" afterwards,
                \* "discarded" once the components have let go of the instance

vars == <<heap, smCells, canvasCells, nextId, vtm, raf, sinceFrame, subs, log, lastOp,
          ui, phase>>

----
\* Program constants, in units of 0.5 ms

MinEffective == 200
Epsilon == 2
MaxDelta == 200
DEFAULT_IMAGE_DURATION == 6000

\* Bounds of the model

MaxAdds == 3
MaxClips == 3

Null == 0

\* the handle of an animation frame callback that has already run
Stale == -2

Max(a, b) == IF a >= b THEN a ELSE b
Min(a, b) == IF a <= b THEN a ELSE b
Abs(a) == IF a < 0 THEN 0 - a ELSE a

\* the value of an optional field that is absent
Undefined == -1

\* JavaScript `x || 0` for a number or undefined
OrZero(x) == IF x = Undefined \/ x = 0 THEN 0 ELSE x

Range(s) == { s[i] : i \in DOMAIN s }

\* no gesture: no trim handle is dragged, no clip component is mounted and no
\* ripple preview is shown
NoCell == [id |-> 0, mediaNodeId |-> "", position |-> 0, startTime |-> 0,
           duration |-> 0, trimStart |-> 0, trimEnd |-> 0]

NoRipple == [isActive |-> FALSE, clipId |-> 0, ripplePositions |-> <<>>]

\* the dragState of useRearrangeDragHandler after its clean-up; null is -1
NoDragState == [isDragging |-> FALSE, isActuallyMoving |-> FALSE, draggedClipId |-> 0,
                insertionIndex |-> -1, insertionPixelPosition |-> -1]

\* the timeline mode, the press on a clip body in trim mode (its hold timer and
\* listeners), the listener sets of startRearrangeDrag on the document, the
\* drag state, and how often this press has started the drag
NoRearrange == [mode |-> "trim", exitPending |-> FALSE, press |-> "none",
                pressClip |-> 0, startX |-> 0, dragSets |-> <<>>,
                dragState |-> NoDragState, gap |-> -1, starts |-> 0]

\* what the last validateClipMove returned; an absent suggestedTime is -1
NoValidation == [valid |-> TRUE, suggestedTime |-> -1, conflicts |-> <<>>]

NoUi == [draggingHandle |-> "none", cell |-> NoCell, presses |-> 0,
         latestTrimValues |-> <<>>, ripplePreview |-> NoRipple,
         rearrange |-> NoRearrange, validation |-> NoValidation]

----
\* timelineUtils.ts

\* the variant without the minimum
GetEffectiveDurationNoFloor(cell) ==
    OrZero(cell.duration) - OrZero(cell.trimStart) - OrZero(cell.trimEnd)

GetEffectiveDuration(cell) ==
    LET originalDuration == OrZero(cell.duration)
        trimStart == OrZero(cell.trimStart)
        trimEnd == OrZero(cell.trimEnd)
    IN  Max(MinEffective, originalDuration - trimStart - trimEnd)

\* the media library: canvas.nodes
Nodes == <<[id |-> "image1", type |-> "image", duration |-> Undefined],
           [id |-> "video1", type |-> "video", duration |-> 700]>>

\* nodes.find(n => n.id === mediaNodeId), 0 when there is none
FindNode(nodes, mediaNodeId) ==
    IF \E i \in DOMAIN nodes : nodes[i].id = mediaNodeId
    THEN CHOOSE i \in DOMAIN nodes :
            /\ nodes[i].id = mediaNodeId
            /\ \A j \in 1..(i - 1) : nodes[j].id # mediaNodeId
    ELSE 0

GetClipDuration(cell, nodes) ==
    IF cell.duration # Undefined THEN cell.duration
    ELSE LET n == FindNode(nodes, cell.mediaNodeId)
         IN  IF n = 0 THEN DEFAULT_IMAGE_DURATION
             ELSE IF nodes[n].type = "image" THEN DEFAULT_IMAGE_DURATION
             ELSE IF nodes[n].type = "video" /\ OrZero(nodes[n].duration) # 0
                  THEN nodes[n].duration
             ELSE DEFAULT_IMAGE_DURATION

RECURSIVE SumEffective(_, _)
\* startTime after the forEach over the first n of the previous cells
SumEffective(previousCells, n) ==
    IF n = 0 THEN 0
    ELSE SumEffective(previousCells, n - 1) + GetEffectiveDuration(previousCells[n])

RECURSIVE FilterBefore(_, _)
\* allCells.filter(c => c.position < position)
FilterBefore(allCells, position) ==
    IF allCells = <<>> THEN <<>>
    ELSE IF Head(allCells).position < position
         THEN <<Head(allCells)>> \o FilterBefore(Tail(allCells), position)
         ELSE FilterBefore(Tail(allCells), position)

\* the sum does not depend on the order .sort((a, b) => a.position - b.position)
\* gives the previous cells
CalculateStartTime(cell, allCells, nodes) ==
    LET previousCells == FilterBefore(allCells, cell.position)
    IN  SumEffective(previousCells, Len(previousCells))

MigrateToTimeBasedLayout(cells, nodes) ==
    [i \in DOMAIN cells |->
        [cells[i] EXCEPT !.startTime = CalculateStartTime(cells[i], cells, nodes),
                         !.duration = GetClipDuration(cells[i], nodes)]]

----
\* SceneEditorOperations: every operation reads the cells array of the state
\* manager's canvas, builds updatedCells and stores it with updateCanvas.
\* A cells array is a sequence of references; h is the heap of cell objects.

\* the effective duration as the operations compute it inline
OpEffectiveDuration(cell) ==
    LET originalDuration == OrZero(cell.duration)
        trimStart == OrZero(cell.trimStart)
        trimEnd == OrZero(cell.trimEnd)
    IN  Max(MinEffective, originalDuration - trimStart - trimEnd)

RECURSIVE CumulativeTime(_, _, _)
\* value of cumulativeTime when the forEach reaches index n + 1
CumulativeTime(h, refs, n) ==
    IF n = 0 THEN 0
    ELSE CumulativeTime(h, refs, n - 1) + OpEffectiveDuration(h[refs[n]])

IndexOfRef(refs, r) == CHOOSE i \in DOMAIN refs : refs[i] = r

\* updatedCells.forEach((cell, index) => { cell.position = index })
RenumberPositions(h, refs) ==
    [r \in DOMAIN h |->
        IF r \in Range(refs)
        THEN [h[r] EXCEPT !.position = IndexOfRef(refs, r) - 1]
        ELSE h[r]]

\* the legacy variant of the operations: start times are left as they are
KeepStartTimes(h, refs) == h

\* let cumulativeTime = 0; updatedCells.forEach(cell => { cell.startTime = ... })
RecomputeStartTimes(h, refs) ==
    [r \in DOMAIN h |->
        IF r \in Range(refs)
        THEN [h[r] EXCEPT !.startTime = CumulativeTime(h, refs, IndexOfRef(refs, r) - 1)]
        ELSE h[r]]

\* Array.prototype.splice(start, 0, x): start is clamped as JavaScript does
SpliceStart(len, start) ==
    IF start < 0 THEN Max(len + start, 0) ELSE Min(start, len)

SpliceInsert(s, start, x) ==
    LET k == SpliceStart(Len(s), start)
    IN  SubSeq(s, 1, k) \o <<x>> \o SubSeq(s, k + 1, Len(s))

\* Array.prototype.splice(i, 1) for an index i of the array (0-based)
SpliceRemove(s, i) == SubSeq(s, 1, i) \o SubSeq(s, i + 2, Len(s))

\* cells.filter(c => c.id !== cellId)
RECURSIVE FilterOutId(_, _, _)
FilterOutId(h, refs, cellId) ==
    IF refs = <<>> THEN <<>>
    ELSE IF h[Head(refs)].id = cellId
         THEN FilterOutId(h, Tail(refs), cellId)
         ELSE <<Head(refs)>> \o FilterOutId(h, Tail(refs), cellId)

\* cells.findIndex(c => c.id === cellId), 0-based, -1 when absent
FindIndex(h, refs, cellId) ==
    IF \E i \in DOMAIN refs : h[refs[i]].id = cellId
    THEN (CHOOSE i \in DOMAIN refs :
            /\ h[refs[i]].id = cellId
            /\ \A j \in 1..(i - 1) : h[refs[j]].id # cellId) - 1
    ELSE -1

\* Each Execute returns the heap after the operation, the array handed to
\* updateCanvas and whether updateCanvas was called at all.

RemoveExecute(h, cells, cellId) ==
    LET updatedCells == FilterOutId(h, cells, cellId)
        h1 == RenumberPositions(h, updatedCells)
        h2 == RecomputeStartTimes(h1, updatedCells)
    IN  [h |-> h2, cells |-> updatedCells, stored |-> TRUE]

\* the variant that moves the trim values by the given amounts
TrimExecuteRelative(h, cells, cellId, trimStart, trimEnd) ==
    LET hit == { i \in DOMAIN cells : h[cells[i]].id = cellId }
        h1 == [r \in DOMAIN h |->
                 IF r \in { cells[i] : i \in hit }
                 THEN [h[r] EXCEPT !.trimStart = @ + trimStart, !.trimEnd = @ + trimEnd]
                 ELSE h[r]]
    IN  [h |-> RecomputeStartTimes(h1, cells), cells |-> cells, stored |-> TRUE]

\* the variant that stores the trim and recomputes no start time
TrimExecuteNoRipple(h, cells, cellId, trimStart, trimEnd) ==
    LET hit == { i \in DOMAIN cells : h[cells[i]].id = cellId }
        fresh == [i \in hit |-> Len(h) + Cardinality({ j \in hit : j <= i })]
        h1 == h \o [k \in 1..Cardinality(hit) |->
                      LET i == CHOOSE i \in hit : fresh[i] = Len(h) + k
                      IN  [h[cells[i]] EXCEPT !.trimStart = trimStart,
                                              !.trimEnd = trimEnd]]
        updatedCells == [i \in DOMAIN cells |->
                            IF i \in hit THEN fresh[i] ELSE cells[i]]
    IN  [h |-> h1, cells |-> updatedCells, stored |-> TRUE]

TrimExecute(h, cells, cellId, trimStart, trimEnd) ==
    LET hit == { i \in DOMAIN cells : h[cells[i]].id = cellId }
        \* cells.map: the addressed cell is copied with the new trim values
        fresh == [i \in hit |-> Len(h) + Cardinality({ j \in hit : j <= i })]
        h1 == h \o [k \in 1..Cardinality(hit) |->
                      LET i == CHOOSE i \in hit : fresh[i] = Len(h) + k
                      IN  [h[cells[i]] EXCEPT !.trimStart = trimStart,
                                              !.trimEnd = trimEnd]]
        updatedCells == [i \in DOMAIN cells |->
                            IF i \in hit THEN fresh[i] ELSE cells[i]]
        h2 == RecomputeStartTimes(h1, updatedCells)
    IN  [h |-> h2, cells |-> updatedCells, stored |-> TRUE]

\* the variant that counts newPosition in the array that still holds the cell
MoveExecuteBeforeRemoval(h, cells, cellId, newPosition) ==
    LET cellIndex == FindIndex(h, cells, cellId)
    IN  IF cellIndex = -1
        THEN [h |-> h, cells |-> cells, stored |-> FALSE]
        ELSE LET movedCell == cells[cellIndex + 1]
                 removed == SpliceRemove(cells, cellIndex)
                 updatedCells ==
                     SpliceInsert(removed,
                                  IF newPosition > cellIndex THEN newPosition - 1
                                  ELSE newPosition,
                                  movedCell)
                 h1 == RenumberPositions(h, updatedCells)
                 h2 == RecomputeStartTimes(h1, updatedCells)
             IN  [h |-> h2, cells |-> updatedCells, stored |-> TRUE]

MoveExecute(h, cells, cellId, newPosition) ==
    LET cellIndex == FindIndex(h, cells, cellId)
    IN  IF cellIndex = -1
        THEN [h |-> h, cells |-> cells, stored |-> FALSE]
        ELSE LET movedCell == cells[cellIndex + 1]
                 removed == SpliceRemove(cells, cellIndex)
                 updatedCells == SpliceInsert(removed, newPosition, movedCell)
                 h1 == RenumberPositions(h, updatedCells)
                 h2 == RecomputeStartTimes(h1, updatedCells)
             IN  [h |-> h2, cells |-> updatedCells, stored |-> TRUE]

\* position = -1 stands for an omitted position argument (undefined)
AddExecute(h, cells, cellId, mediaNodeId, position, given) ==
    LET newPosition == IF given THEN position ELSE Len(cells)
        newCell == [id |-> cellId, mediaNodeId |-> mediaNodeId,
                    position |-> newPosition, startTime |-> 0, duration |-> 0,
                    trimStart |-> 0, trimEnd |-> 0]
        h0 == Append(h, newCell)
        updatedCells == SpliceInsert(cells, newPosition, Len(h0))
        h1 == RenumberPositions(h0, updatedCells)
        h2 == RecomputeStartTimes(h1, updatedCells)
    IN  [h |-> h2, cells |-> updatedCells, stored |-> TRUE]

----
\* VirtualTimelineManager.ts
\* A world w holds the instance fields (w.v), the browser's pending animation
\* frame callbacks (w.raf), the subscriber callbacks' behaviour (w.subs) and the
\* record of what the running handler has done so far (w.log).

Channels == {"timeline", "time", "player"}

NullPosition ==
    [clipIndex |-> -1, clipTime |-> 0, clipStartTime |-> 0, clipEndTime |-> 0]

\* private getEffectiveDuration(cell)
VtmGetEffectiveDuration(cell) ==
    LET originalDuration == OrZero(cell.duration)
        trimStart == OrZero(cell.trimStart)
        trimEnd == OrZero(cell.trimEnd)
    IN  Max(MinEffective, originalDuration - trimStart - trimEnd)

RECURSIVE MaxEndTime(_, _)
\* maxEndTime after the forEach has visited the first n cells
MaxEndTime(cells, n) ==
    IF n = 0 THEN 0
    ELSE Max(MaxEndTime(cells, n - 1),
             OrZero(cells[n].startTime) + VtmGetEffectiveDuration(cells[n]))

RECURSIVE SumOfDurations(_, _)
SumOfDurations(cells, n) ==
    IF n = 0 THEN 0
    ELSE SumOfDurations(cells, n - 1) + VtmGetEffectiveDuration(cells[n])

\* the variant that adds the effective durations up
VtmCalculateTotalDurationSum(cells) == SumOfDurations(cells, Len(cells))

VtmCalculateTotalDuration(cells) ==
    IF Len(cells) = 0 THEN 0 ELSE MaxEndTime(cells, Len(cells))

RECURSIVE InsertByStartTime(_, _)
InsertByStartTime(sorted, cell) ==
    IF sorted = <<>> THEN <<cell>>
    ELSE IF OrZero(sorted[Len(sorted)].startTime) - OrZero(cell.startTime) > 0
         THEN Append(InsertByStartTime(SubSeq(sorted, 1, Len(sorted) - 1), cell),
                     sorted[Len(sorted)])
         ELSE Append(sorted, cell)

RECURSIVE SortByStartTime(_)
\* [...cells].sort((a, b) => (a.startTime || 0) - (b.startTime || 0)), a stable sort
SortByStartTime(cells) ==
    IF cells = <<>> THEN <<>>
    ELSE InsertByStartTime(SortByStartTime(SubSeq(cells, 1, Len(cells) - 1)),
                           cells[Len(cells)])

\* the comparison of globalTimeToClipPosition that treats a time within epsilon
\* of a clip's start as that clip's start
IsAtStart(clampedTime, startTime) == Abs(clampedTime - startTime) < Epsilon

\* the variant that counts a clip's end time as inside the clip
IsWithinClipClosed(clampedTime, startTime, endTime) ==
    clampedTime >= startTime /\ clampedTime <= endTime

\* const isWithinClip = clampedTime >= startTime && clampedTime < endTime
IsWithinClip(clampedTime, startTime, endTime) ==
    clampedTime >= startTime /\ clampedTime < endTime

\* the variant without the special case: a time at the end maps to no clip
EndOfTimelineMissing(v, clampedTime) == NullPosition

\* the end-of-timeline special case of globalTimeToClipPosition
EndOfTimeline(v, clampedTime) ==
    IF clampedTime >= v.totalDuration /\ Len(v.cells) > 0
    THEN LET lastClip == v.cells[Len(v.cells)]
             lastClipStartTime == OrZero(lastClip.startTime)
             lastClipDuration == VtmGetEffectiveDuration(lastClip)
         IN  [clipIndex |-> Len(v.cells) - 1,
              clipTime |-> lastClipDuration,
              clipStartTime |-> lastClipStartTime,
              clipEndTime |-> lastClipStartTime + lastClipDuration]
    ELSE NullPosition

RECURSIVE ScanClips(_, _, _)
\* the for loop of globalTimeToClipPosition from index i (0-based) on
ScanClips(v, clampedTime, i) ==
    IF i >= Len(v.cells) THEN EndOfTimeline(v, clampedTime)
    ELSE LET cell == v.cells[i + 1]
             startTime == OrZero(cell.startTime)
             endTime == startTime + VtmGetEffectiveDuration(cell)
             isWithinClip == IsWithinClip(clampedTime, startTime, endTime)
         IN  IF IsAtStart(clampedTime, startTime)
             THEN [clipIndex |-> i, clipTime |-> 0,
                   clipStartTime |-> startTime, clipEndTime |-> endTime]
             ELSE IF isWithinClip
             THEN [clipIndex |-> i, clipTime |-> clampedTime - startTime,
                   clipStartTime |-> startTime, clipEndTime |-> endTime]
             ELSE ScanClips(v, clampedTime, i + 1)

\* the variant that scans for the time as given
GlobalTimeToClipPositionUnclamped(v, globalTime) == ScanClips(v, globalTime, 0)

GlobalTimeToClipPosition(v, globalTime) ==
    LET clampedTime == Max(0, Min(globalTime, v.totalDuration))
    IN  ScanClips(v, clampedTime, 0)

\* the variant that forgets the clip's start time
ClipPositionToGlobalTimeLocal(v, clipIndex, clipTime) ==
    IF clipIndex < 0 \/ clipIndex >= Len(v.cells) THEN 0
    ELSE Max(0, Min(clipTime, VtmGetEffectiveDuration(v.cells[clipIndex + 1])))

ClipPositionToGlobalTime(v, clipIndex, clipTime) ==
    IF clipIndex < 0 \/ clipIndex >= Len(v.cells) THEN 0
    ELSE LET cell == v.cells[clipIndex + 1]
             startTime == OrZero(cell.startTime)
             effectiveDuration == VtmGetEffectiveDuration(cell)
             clampedClipTime == Max(0, Min(clipTime, effectiveDuration))
         IN  startTime + clampedClipTime

GetCurrentClip(v) == GlobalTimeToClipPosition(v, v.currentTime)

\* the array of callbacks of a channel
Callbacks(v, ch) ==
    CASE ch = "timeline" -> v.timelineChangeCallbacks
      [] ch = "time" -> v.currentTimeChangeCallbacks
      [] ch = "player" -> v.videoPlayerCallbacks

\* a statement sequence: x is evaluated once and F continues with its value
Then(x, F(_)) == CHOOSE r \in { F(y) : y \in {x} } : TRUE

Logged(w, entry) == [w EXCEPT !.log = Append(@, entry)]

\* window.requestAnimationFrame: handles are opaque; the model hands out the
\* smallest number that is not pending. A handle whose callback has run is
\* replaced by Stale wherever it is held, so no later handle equals it.
FreshHandle(w) ==
    CHOOSE h \in 1..(Len(w.raf) + 1) :
        /\ h \notin Range(w.raf)
        /\ \A g \in 1..(h - 1) : g \in Range(w.raf)

\* the browser takes the oldest pending callback off its list to run it
Fired(w) ==
    [w EXCEPT !.raf = Tail(@),
              !.v.masterClockRef = IF @ = Head(w.raf) THEN Stale ELSE @]

RECURSIVE Without(_, _)
Without(s, x) ==
    IF s = <<>> THEN <<>>
    ELSE IF Head(s) = x THEN Without(Tail(s), x)
    ELSE <<Head(s)>> \o Without(Tail(s), x)

\* window.cancelAnimationFrame(handle): no effect for a handle that already ran
CancelAnimationFrame(w, handle) == [w EXCEPT !.raf = Without(@, handle)]

StopMasterClock(w0) ==
    Then(w0, LAMBDA w :
        IF w.v.masterClockRef # Null
        THEN [CancelAnimationFrame(w, w.v.masterClockRef)
                 EXCEPT !.v.masterClockRef = Null]
        ELSE w)

\* this.masterClockRef = requestAnimationFrame(this.masterClockLoop)
ScheduleLoop(w0) ==
    Then(w0, LAMBDA w :
        LET h == FreshHandle(w)
        IN  Logged([w EXCEPT !.raf = Append(@, h), !.v.masterClockRef = h],
                   [kind |-> "schedule", ch |-> "clock", sub |-> 0,
                    currentTime |-> w.v.currentTime,
                    totalDuration |-> w.v.totalDuration, arg |-> h]))

\* this.lastFrameTime = performance.now()
TakeFrameTime(w) == [w EXCEPT !.since = 0]

StartMasterClock(w0) ==
    Then(w0, LAMBDA w :
        ScheduleLoop(TakeFrameTime(
            IF w.v.masterClockRef # Null THEN StopMasterClock(w) ELSE w)))

RECURSIVE ForEachCallback(_, _, _, _, _)
RECURSIVE Invoke(_, _, _, _)
RECURSIVE React(_, _)
RECURSIVE NotifyTimelineChange(_)
RECURSIVE NotifyCurrentTimeChange(_, _)
RECURSIVE NotifyVideoPlayerInstruction(_)
RECURSIVE UpdateCurrentTimeInternal(_, _, _)
RECURSIVE SetCurrentTime(_, _)
RECURSIVE SetPlaying(_, _)

\* what a subscriber callback does when it is called: a passive one only
\* observes; a reactive one calls back into the manager, once
React(w, reaction) ==
    CASE reaction = "start" -> StartMasterClock(w)
      [] reaction = "stop" -> StopMasterClock(w)
      [] reaction = "seek" -> SetCurrentTime(w, 0)
      [] reaction = "pause" -> SetPlaying(w, FALSE)
      [] OTHER -> w

\* the unsubscribe function returned by on...Change(callback):
\* indexOf(callback), and splice(index, 1) if index > -1
Unsubscribed(w, ch, sub) ==
    LET kept == Without(Callbacks(w.v, ch), sub)
    IN  CASE ch = "timeline" -> [w EXCEPT !.v.timelineChangeCallbacks = kept]
          [] ch = "time" -> [w EXCEPT !.v.currentTimeChangeCallbacks = kept]
          [] ch = "player" -> [w EXCEPT !.v.videoPlayerCallbacks = kept]

\* an exception is in flight: the last thing that happened is a throw
Thrown(w) == w.log # <<>> /\ w.log[Len(w.log)].kind = "throw"

\* callback(arg) for the subscriber sub of channel ch. A callback that
\* unsubscribes or calls back into the manager does so the first time it is
\* called; a callback that throws, throws every time
Invoke(w0, ch, sub, arg) ==
    Then(w0, LAMBDA w :
        LET entry == [kind |-> "call", ch |-> ch, sub |-> sub,
                      currentTime |-> w.v.currentTime,
                      totalDuration |-> w.v.totalDuration, arg |-> arg]
            w1 == Logged(w, entry)
            behaviour == w.subs[ch][sub]
        IN  IF behaviour.react = "throw"
            THEN Logged(w1, [entry EXCEPT !.kind = "throw"])
            ELSE IF ~behaviour.armed THEN w1
            ELSE IF behaviour.react = "unsubscribe"
                 THEN Unsubscribed([w1 EXCEPT !.subs[ch][sub].armed = FALSE],
                                   ch, behaviour.target)
            ELSE React([w1 EXCEPT !.subs[ch][sub].armed = FALSE], behaviour.react))

\* the variant without the try/catch around the callback
TryCallbackNoCatch(w0, ch, sub, arg) == Invoke(w0, ch, sub, arg)

\* try { callback(arg) } catch (error) { console.error(...) }
TryCallback(w0, ch, sub, arg) ==
    Then(Invoke(w0, ch, sub, arg), LAMBDA w :
        IF Thrown(w)
        THEN Logged(w, [w.log[Len(w.log)] EXCEPT !.kind = "error"])
        ELSE w)

\* the variant that puts the callbacks off to a later task
ForEachCallbackDeferred(w0, ch, k, len, arg) == w0

\* callbacks.forEach(callback => { try { callback(arg) } catch ... }): forEach
\* visits the indexes below the length it read at the start, k is 1-based; an
\* exception that escapes the callback ends the loop
ForEachCallback(w0, ch, k, len, arg) ==
    Then(w0, LAMBDA w :
        IF Thrown(w) \/ k > len \/ k > Len(Callbacks(w.v, ch)) THEN w
        ELSE ForEachCallback(TryCallback(w, ch, Callbacks(w.v, ch)[k], arg),
                             ch, k + 1, len, arg))

NotifyTimelineChange(w0) ==
    Then(w0, LAMBDA w :
        LET state == w.v.currentTime   \* getTimelineState(), taken before the loop
            w1 == Logged(w, [kind |-> "notify", ch |-> "timeline", sub |-> 0,
                             currentTime |-> w.v.currentTime,
                             totalDuration |-> w.v.totalDuration, arg |-> state])
        IN  ForEachCallback(w1, "timeline", 1,
                            Len(w.v.timelineChangeCallbacks), state))

NotifyCurrentTimeChange(w0, globalTime) ==
    Then(w0, LAMBDA w :
        LET w1 == Logged(w, [kind |-> "notify", ch |-> "time", sub |-> 0,
                             currentTime |-> w.v.currentTime,
                             totalDuration |-> w.v.totalDuration,
                             arg |-> globalTime])
        IN  ForEachCallback(w1, "time", 1,
                            Len(w.v.currentTimeChangeCallbacks), globalTime))

NotifyVideoPlayerInstruction(w0) ==
    Then(w0, LAMBDA w :
        Then(GetCurrentClip(w.v), LAMBDA clipPosition :
            LET seekTime == IF clipPosition.clipIndex = -1 THEN 0
                            ELSE OrZero(clipPosition.clipTime)
                w1 == Logged(w, [kind |-> "notify", ch |-> "player", sub |-> 0,
                                 currentTime |-> w.v.currentTime,
                                 totalDuration |-> w.v.totalDuration,
                                 arg |-> seekTime])
            IN  ForEachCallback(w1, "player", 1,
                                Len(w.v.videoPlayerCallbacks), seekTime)))

\* the variant that notifies every channel whoever moved the playhead
UpdateCurrentTimeInternalFull(w0, newTime, notifyAll) ==
    Then(w0, LAMBDA w :
        LET clampedTime == Max(0, Min(newTime, w.v.totalDuration))
        IN  IF w.v.currentTime # clampedTime
            THEN LET w1 == [w EXCEPT !.v.currentTime = clampedTime]
                     w2 == NotifyCurrentTimeChange(w1, clampedTime)
                 IN  NotifyVideoPlayerInstruction(NotifyTimelineChange(w2))
            ELSE w)

UpdateCurrentTimeInternal(w0, newTime, notifyAll) ==
    Then(w0, LAMBDA w :
        LET clampedTime == Max(0, Min(newTime, w.v.totalDuration))
        IN  IF w.v.currentTime # clampedTime
            THEN LET w1 == [w EXCEPT !.v.currentTime = clampedTime]
                     w2 == NotifyCurrentTimeChange(w1, clampedTime)
                 IN  IF notifyAll
                     THEN NotifyVideoPlayerInstruction(NotifyTimelineChange(w2))
                     ELSE NotifyVideoPlayerInstruction(w2)
            ELSE w)

\* the variant that leaves the running clock alone
SetCurrentTimeNoRestart(w0, globalTime) ==
    Then(w0, LAMBDA w :
        LET clampedTime == Max(0, Min(globalTime, w.v.totalDuration))
        IN  IF w.v.currentTime # clampedTime
            THEN UpdateCurrentTimeInternal(w, clampedTime, TRUE)
            ELSE w)

SetCurrentTime(w0, globalTime) ==
    Then(w0, LAMBDA w :
        LET clampedTime == Max(0, Min(globalTime, w.v.totalDuration))
        IN  IF w.v.currentTime # clampedTime
            THEN Then(UpdateCurrentTimeInternal(w, clampedTime, TRUE), LAMBDA w1 :
                      IF w1.v.playing THEN StartMasterClock(w1) ELSE w1)
            ELSE w)

\* the variant that starts the clock wherever the playhead is
SetPlayingNoRewind(w0, isPlaying) ==
    Then(w0, LAMBDA w :
        IF w.v.playing # isPlaying
        THEN LET w1 == [w EXCEPT !.v.playing = isPlaying]
             IN  NotifyTimelineChange(IF isPlaying THEN StartMasterClock(w1)
                                      ELSE StopMasterClock(w1))
        ELSE w)

SetPlaying(w0, isPlaying) ==
    Then(w0, LAMBDA w :
        IF w.v.playing # isPlaying
        THEN LET w1 == [w EXCEPT !.v.playing = isPlaying]
                 w2 == IF isPlaying
                       THEN StartMasterClock(
                                IF w1.v.currentTime >= w1.v.totalDuration
                                THEN SetCurrentTime(w1, 0) ELSE w1)
                       ELSE StopMasterClock(w1)
             IN  NotifyTimelineChange(w2)
        ELSE w)

\* the variant that leaves the playhead beyond a shortened timeline
UpdateTimelineNoClamp(w0, cells) ==
    Then(SortByStartTime(cells), LAMBDA sorted :
        NotifyVideoPlayerInstruction(NotifyTimelineChange(
            [w0 EXCEPT !.v.cells = sorted,
                      !.v.totalDuration = VtmCalculateTotalDuration(sorted)])))

UpdateTimeline(w0, cells) ==
    Then(SortByStartTime(cells), LAMBDA sorted :
        Then([w0 EXCEPT !.v.cells = sorted,
                        !.v.totalDuration = VtmCalculateTotalDuration(sorted)],
             LAMBDA w1 :
                LET w2 == IF w1.v.currentTime > w1.v.totalDuration
                          THEN SetCurrentTime(w1, w1.v.totalDuration) ELSE w1
                IN  NotifyVideoPlayerInstruction(NotifyTimelineChange(w2))))

UpdateZoomSystem(w0, newZoomSystem) ==
    Then(NotifyTimelineChange([w0 EXCEPT !.v.zoomSystem = newZoomSystem]),
         LAMBDA w2 : NotifyCurrentTimeChange(w2, w2.v.currentTime))

\* cells.find(cell => cell.id === clipId), 0 when there is none
FindClip(cells, clipId) ==
    IF \E i \in DOMAIN cells : cells[i].id = clipId
    THEN CHOOSE i \in DOMAIN cells :
            /\ cells[i].id = clipId
            /\ \A j \in 1..(i - 1) : cells[j].id # clipId
    ELSE 0

AdjustPlayheadAfterClipMove(w0, clipId, oldStartTime, newStartTime) ==
    Then(w0, LAMBDA w :
        LET currentTime == w.v.currentTime
            k == FindClip(w.v.cells, clipId)
        IN  IF k = 0 THEN w
            ELSE LET clipEffectiveDuration == VtmGetEffectiveDuration(w.v.cells[k])
                     oldEndTime == oldStartTime + clipEffectiveDuration
                 IN  IF currentTime >= oldStartTime /\ currentTime <= oldEndTime
                     THEN SetCurrentTime(w, newStartTime + (currentTime - oldStartTime))
                     ELSE w)

\* the variant that only rejects a delta that is not positive
ValidDeltaNoUpperLimit(deltaTime) == deltaTime > 0

\* the sanity check of masterClockLoop: deltaTime > 0 && deltaTime < 0.1
ValidDelta(deltaTime) == deltaTime > 0 /\ deltaTime < MaxDelta

\* the variant that clamps at the end of the timeline but keeps playing
MasterClockLoopNoStop(w0, deltaTime) ==
    Then(w0, LAMBDA w :
        IF ~w.v.playing THEN [w EXCEPT !.v.masterClockRef = Null]
        ELSE ScheduleLoop(TakeFrameTime(
                IF ValidDelta(deltaTime)
                THEN UpdateCurrentTimeInternal(w, w.v.currentTime + deltaTime, FALSE)
                ELSE w)))

\* private masterClockLoop, run by the browser for a pending callback;
\* deltaTime is (performance.now() - this.lastFrameTime) / 1000
MasterClockLoop(w0, deltaTime) ==
    Then(w0, LAMBDA w :
        IF ~w.v.playing THEN [w EXCEPT !.v.masterClockRef = Null]
        ELSE IF ValidDelta(deltaTime)
                  /\ w.v.currentTime + deltaTime >= w.v.totalDuration
             THEN SetPlaying(UpdateCurrentTimeInternal(w, w.v.totalDuration, FALSE),
                             FALSE)
             ELSE ScheduleLoop(TakeFrameTime(
                    IF ValidDelta(deltaTime)
                    THEN UpdateCurrentTimeInternal(w, w.v.currentTime + deltaTime,
                                                   FALSE)
                    ELSE w)))

----
\* The editor: Edit Operations executed against the state manager, starting
\* from the empty canvas of TimelineProvider.

MediaIds == {"video1"}
TrimParams == {<<-400, -400>>, <<300, 0>>}

\* the cells array of the state manager, as values
Stored == [i \in DOMAIN smCells |-> heap[smCells[i]]]

NewVtm ==
    [cells |-> <<>>, currentTime |-> 0, playing |-> FALSE, totalDuration |-> 0,
     masterClockRef |-> Null, zoomSystem |-> "normal",
     timelineChangeCallbacks |-> <<>>, currentTimeChangeCallbacks |-> <<>>,
     videoPlayerCallbacks |-> <<>>]

NoSubs == [ch \in Channels |-> <<>>]

\* what the last step was: its numeric arguments, a textual argument and, for
\* a query, the position it returned
Op(name, a, b, c) ==
    [op |-> name, a |-> a, b |-> b, c |-> c, s |-> "", r |-> NullPosition]

OpText(name, text) == [Op(name, 0, 0, 0) EXCEPT !.s = text]

OpQuery(name, a, b, result) == [Op(name, a, b, 0) EXCEPT !.r = result]

\* updateCanvas(newCanvas): the stored array replaces the old one; objects that
\* no array refers to any more are dropped and the references renumbered
Commit(result) ==
    LET stored == IF result.stored THEN result.cells ELSE smCells
        kept == stored \o SelectSeq(canvasCells, LAMBDA r : r \notin Range(stored))
        moved(r) == CHOOSE i \in DOMAIN kept : kept[i] = r
    IN  /\ heap' = [i \in DOMAIN kept |-> result.h[kept[i]]]
        /\ smCells' = [i \in DOMAIN stored |-> i]
        /\ canvasCells' = [i \in DOMAIN canvasCells |-> moved(canvasCells[i])]

VtmUnchanged == UNCHANGED <<vtm, raf, sinceFrame, subs, log, ui, phase>>

InitEdit ==
    /\ heap = <<>>
    /\ smCells = <<>>
    /\ canvasCells = <<>>
    /\ sinceFrame = 0
    /\ ui = NoUi
    /\ nextId = 1
    /\ vtm = NewVtm
    /\ raf = <<>>
    /\ subs = NoSubs
    /\ log = <<>>
    /\ lastOp = Op("init", 0, 0, 0)
    /\ phase = "interactive"

\* new AddSceneEditorCellOperation(mediaNodeId, position).execute(context)
Add(mediaNodeId, position, given) ==
    /\ nextId <= MaxAdds
    /\ Len(smCells) < MaxClips
    /\ Commit(AddExecute(heap, smCells, nextId, mediaNodeId, position, given))
    /\ nextId' = nextId + 1
    /\ lastOp' = Op("Add", nextId, IF given THEN position ELSE Undefined, 0)
    /\ VtmUnchanged

\* new RemoveSceneEditorCellOperation(cellId).execute(context)
Remove(cellId) ==
    /\ Commit(RemoveExecute(heap, smCells, cellId))
    /\ lastOp' = Op("Remove", cellId, 0, 0)
    /\ UNCHANGED nextId
    /\ VtmUnchanged

\* new MoveSceneEditorCellOperation(cellId, newPosition).execute(context)
Move(cellId, newPosition) ==
    /\ Commit(MoveExecute(heap, smCells, cellId, newPosition))
    /\ lastOp' = Op("Move", cellId, newPosition, 0)
    /\ UNCHANGED nextId
    /\ VtmUnchanged

\* new TrimSceneEditorCellOperation(cellId, trimStart, trimEnd).execute(context)
Trim(cellId, trimStart, trimEnd) ==
    /\ Commit(TrimExecute(heap, smCells, cellId, trimStart, trimEnd))
    /\ lastOp' = Op("Trim", cellId, trimStart, trimEnd)
    /\ UNCHANGED nextId
    /\ VtmUnchanged

NextEdit ==
    \/ \E m \in MediaIds : Add(m, 0, FALSE)
    \/ \E m \in MediaIds, p \in 0..MaxClips : Add(m, p, TRUE)
    \/ \E id \in 1..MaxAdds : Remove(id)
    \/ \E id \in 1..MaxAdds, p \in -1..MaxClips : Move(id, p)
    \/ \E id \in 1..MaxAdds, trim \in TrimParams : Trim(id, trim[1], trim[2])

SpecEdit == InitEdit /\ [][NextEdit]_vars

EditOps == {"Add", "Remove", "Move", "Trim"}

\* zero gaps and zero overlaps in position (array) order
GapFree(cells) ==
    /\ Len(cells) > 0 => cells[1].startTime = 0
    /\ \A i \in 1..(Len(cells) - 1) :
          cells[i].startTime + GetEffectiveDuration(cells[i]) = cells[i + 1].startTime

----
\* The VirtualTimelineManager of the scene editor: the components construct it
\* from the migrated cells, subscribe to it and call it from event handlers;
\* the browser runs the pending animation frame callbacks.

MaxTimelineClips == 2
MaxSubs == 1

\* duration, trimStart and trimEnd of the clips handed to the manager: an
\* untrimmed clip and a trimmed one
ClipShapes == {<<300, 0, 0>>, <<700, 100, 200>>}

\* the cells of the state manager before migration
RawCells(shapes) ==
    [i \in DOMAIN shapes |->
        [id |-> i, mediaNodeId |-> "video1", position |-> i - 1, startTime |-> 0,
         duration |-> shapes[i][1], trimStart |-> shapes[i][2],
         trimEnd |-> shapes[i][3]]]

\* updateTimelineState(sceneEditor, nodes).cells, what the components pass on
Timelines ==
    { MigrateToTimeBasedLayout(RawCells(shapes), Nodes) :
        shapes \in UNION { [1..n -> ClipShapes] : n \in 0..MaxTimelineClips } }

SeekTimes == {-100, 0, 101, 300, 5000}
Deltas == {-100, 0, 199, 200, 1000}
ZoomLevels == {"normal", "detail"}

World == [v |-> vtm, raf |-> raf, since |-> sinceFrame, subs |-> subs, log |-> <<>>]

EditUnchanged == UNCHANGED <<heap, smCells, canvasCells, nextId, ui>>

\* the handler has run to completion and left the world w
Done(w, op) ==
    /\ \E after \in {w} :
          /\ vtm' = after.v
          /\ raf' = after.raf
          /\ sinceFrame' = after.since
          /\ subs' = after.subs
          /\ log' = after.log
    /\ lastOp' = op
    /\ EditUnchanged

\* createVirtualTimelineManager(zoomSystem, initialCells)
Constructed(initialCells) ==
    UpdateTimeline([v |-> NewVtm, raf |-> <<>>, since |-> 0, subs |-> NoSubs,
                    log |-> <<>>],
                   initialCells)

InitVTM ==
    /\ heap = <<>>
    /\ smCells = <<>>
    /\ canvasCells = <<>>
    /\ sinceFrame = 0
    /\ ui = NoUi
    /\ nextId = 1
    /\ \E initialCells \in Timelines :
          \E w \in {Constructed(initialCells)} :
              /\ vtm = w.v
              /\ raf = w.raf
              /\ subs = w.subs
              /\ log = w.log
    /\ lastOp = Op("init", 0, 0, 0)
    /\ phase = "interactive"

DoUpdateTimeline(cells) ==
    /\ phase = "interactive"
    /\ Done(UpdateTimeline(World, cells), Op("updateTimeline", Len(cells), 0, 0))
    /\ UNCHANGED phase

DoSetCurrentTime(globalTime) ==
    /\ phase = "interactive"
    /\ Done(SetCurrentTime(World, globalTime), Op("setCurrentTime", globalTime, 0, 0))
    /\ UNCHANGED phase

DoSetPlaying(isPlaying) ==
    /\ phase = "interactive"
    /\ Done(SetPlaying(World, isPlaying), OpText("setPlaying", IF isPlaying THEN "true" ELSE "false"))
    /\ UNCHANGED phase

DoUpdateZoomSystem(newZoomSystem) ==
    /\ phase = "interactive"
    /\ Done(UpdateZoomSystem(World, newZoomSystem), OpText("updateZoomSystem", newZoomSystem))
    /\ UNCHANGED phase

DoAdjustPlayhead(clipId, oldStartTime, newStartTime) ==
    /\ phase = "interactive"
    /\ Done(AdjustPlayheadAfterClipMove(World, clipId, oldStartTime, newStartTime),
            Op("adjustPlayheadAfterClipMove", clipId, 0, 0))
    /\ UNCHANGED phase

\* onTimelineChange / onCurrentTimeChange / onVideoPlayerInstruction: push
Subscribed(w, ch, behaviour) ==
    LET sub == Len(w.subs[ch]) + 1
        w1 == [w EXCEPT !.subs[ch] = Append(@, behaviour)]
    IN  CASE ch = "timeline" ->
               [w1 EXCEPT !.v.timelineChangeCallbacks = Append(@, sub)]
          [] ch = "time" ->
               [w1 EXCEPT !.v.currentTimeChangeCallbacks = Append(@, sub)]
          [] ch = "player" ->
               [w1 EXCEPT !.v.videoPlayerCallbacks = Append(@, sub)]

\* the components that subscribe: the video player panel subscribes to the
\* player-instruction, current-time and timeline-state channels, the playhead
\* to the current-time and timeline-state channels, in this order
Components == {"videoPlayer", "playhead"}

ComponentChannels(component) ==
    IF component = "videoPlayer" THEN <<"player", "time", "timeline">>
    ELSE <<"time", "timeline">>

RECURSIVE SubscribedAll(_, _)
SubscribedAll(w, chs) ==
    IF chs = <<>> THEN w
    ELSE SubscribedAll(Subscribed(w, Head(chs), [react |-> "none", armed |-> FALSE, target |-> 0]),
                       Tail(chs))

\* a component mounts: its effect subscribes callbacks that only record what
\* they are told
Mount(component) ==
    /\ phase = "interactive"
    /\ \A ch \in Range(ComponentChannels(component)) : Len(subs[ch]) < MaxSubs
    /\ Done(SubscribedAll(World, ComponentChannels(component)),
            OpText("mount", component))
    /\ UNCHANGED phase

\* the browser runs the oldest pending animation frame callback; deltaTime is
\* the time since lastFrameTime was last set
Tick(deltaTime) ==
    /\ raf # <<>>
    /\ phase = "interactive" \/ ValidDelta(deltaTime)
    /\ Done(MasterClockLoop(Fired(World), deltaTime),
            Op("tick", deltaTime, 0, 0))
    /\ UNCHANGED phase

NextVTM ==
    \/ \E cells \in Timelines : DoUpdateTimeline(cells)
    \/ \E t \in SeekTimes : DoSetCurrentTime(t)
    \/ \E b \in BOOLEAN : DoSetPlaying(b)
    \/ \E z \in ZoomLevels : DoUpdateZoomSystem(z)
    \/ \E id \in 1..MaxTimelineClips, old \in {0}, new \in {300} :
          DoAdjustPlayhead(id, old, new)
    \/ \E c \in Components : Mount(c)
    \/ \E d \in Deltas : Tick(d)

SpecVTM == InitVTM /\ [][NextVTM]_vars

Calls(l) == { i \in DOMAIN l : l[i].kind = "call" }

\* C2: the current time stays within the timeline, in every state and at every
\* moment a subscriber callback is called
C2_TimeInRange ==
    /\ 0 <= vtm.currentTime /\ vtm.currentTime <= vtm.totalDuration
    /\ \A i \in Calls(log) :
          0 <= log[i].currentTime /\ log[i].currentTime <= log[i].totalDuration

\* a subscriber is called after updateTimeline shortened the timeline under
\* the playhead
C2_Witness ==
    /\ lastOp.op = "updateTimeline"
    /\ vtm.currentTime = vtm.totalDuration
    /\ vtm.currentTime > 0
    /\ \E i \in Calls(log) : log[i].ch = "time"

----
\* The time mapping as a pure function of the timeline the manager holds:
\* the manager is constructed from any migrated clip list and then queried.

\* besides ClipShapes, a clip as AddExecute creates it (duration 0)
MapShapes == ClipShapes \cup {<<0, 0, 0>>}

MapTimelines ==
    { MigrateToTimeBasedLayout(RawCells(shapes), Nodes) :
        shapes \in UNION { [1..n -> MapShapes] : n \in 0..MaxTimelineClips } }

InitMap ==
    /\ heap = <<>>
    /\ smCells = <<>>
    /\ canvasCells = <<>>
    /\ sinceFrame = 0
    /\ ui = NoUi
    /\ nextId = 1
    /\ \E initialCells \in MapTimelines :
          \E w \in {Constructed(initialCells)} :
              /\ vtm = w.v
              /\ raf = w.raf
              /\ subs = w.subs
              /\ log = w.log
    /\ lastOp = Op("init", 0, 0, 0)
    /\ phase = "interactive"

\* virtualTimeline.globalTimeToClipPosition(globalTime)
QueryGlobalTime(globalTime) ==
    /\ lastOp' = OpQuery("globalTimeToClipPosition", globalTime, 0,
                    GlobalTimeToClipPosition(vtm, globalTime))
    /\ UNCHANGED <<heap, smCells, canvasCells, nextId, vtm, raf, sinceFrame, subs, log, ui,
                 phase>>

\* globalTimeToClipPosition(clipPositionToGlobalTime(clipIndex, clipTime))
QueryRoundTrip(clipIndex, clipTime) ==
    /\ lastOp' = OpQuery("roundTrip", clipIndex, clipTime,
                    GlobalTimeToClipPosition(vtm,
                        ClipPositionToGlobalTime(vtm, clipIndex, clipTime)))
    /\ UNCHANGED <<heap, smCells, canvasCells, nextId, vtm, raf, sinceFrame, subs, log, ui,
                 phase>>

\* the queried times: around every clip boundary, and inside every clip
NearBoundary == -3..3
Inside == {100, 150}

QueryTimes ==
    { b + d : b \in {0} \cup { vtm.cells[i].startTime + GetEffectiveDuration(vtm.cells[i]) :
                                 i \in DOMAIN vtm.cells },
              d \in NearBoundary }
    \cup { vtm.cells[i].startTime + d : i \in DOMAIN vtm.cells, d \in Inside }

ClipTimes(i) ==
    { b + d : b \in {0, GetEffectiveDuration(vtm.cells[i + 1])}, d \in NearBoundary }
    \cup Inside

NextMap ==
    \/ \E t \in QueryTimes : QueryGlobalTime(t)
    \/ \E i \in 0..(Len(vtm.cells) - 1) : \E t \in ClipTimes(i) : QueryRoundTrip(i, t)

SpecMap == InitMap /\ [][NextMap]_vars

\* C3: mapping a clip position to global time and back recovers the clip index
\* and the clip time up to epsilon, for every time inside the clip
C3_RoundTrip ==
    lastOp.op = "roundTrip" =>
        LET i == lastOp.a
            t == lastOp.b
            r == lastOp.r
        IN  (0 <= t /\ t < GetEffectiveDuration(vtm.cells[i + 1])) =>
                /\ r.clipIndex = i
                /\ Abs(r.clipTime - t) <= Epsilon

\* a time just after the start of the second clip comes back as that clip's start
C3_Witness ==
    /\ lastOp.op = "roundTrip"
    /\ lastOp.a = 1
    /\ lastOp.b = 1
    /\ lastOp.r.clipIndex = 1
    /\ lastOp.r.clipTime = 0

C5_BoundaryIsNextClip ==
    lastOp.op = "globalTimeToClipPosition" =>
        \A i \in 1..(Len(vtm.cells) - 1) :
            lastOp.a = vtm.cells[i + 1].startTime =>
                /\ lastOp.r.clipIndex = i
                /\ lastOp.r.clipTime = 0
                /\ lastOp.r.clipStartTime = lastOp.a

\* the boundary of a two-clip timeline was queried and the second clip answered
C5_Witness ==
    /\ lastOp.op = "globalTimeToClipPosition"
    /\ Len(vtm.cells) = 2
    /\ lastOp.a = vtm.cells[2].startTime
    /\ lastOp.a = vtm.cells[1].startTime + GetEffectiveDuration(vtm.cells[1])
    /\ lastOp.r.clipIndex = 1

----
\* The manager behind its public interface: callers may also start and stop
\* the master clock themselves, and a subscriber callback may call back into
\* the manager while it is being notified.

Reactions == {"start", "seek"}

\* a component subscribes a callback that, the first time it is called, calls
\* startMasterClock() or setCurrentTime(0)
SubscribeReactive(ch, reaction) ==
    /\ phase = "interactive"
    /\ Len(subs[ch]) < MaxSubs
    /\ Done(Subscribed(World, ch, [react |-> reaction, armed |-> TRUE, target |-> 0]),
            OpText("subscribe", ch))
    /\ UNCHANGED phase

DoStartMasterClock ==
    /\ phase = "interactive"
    /\ Done(StartMasterClock(World), Op("startMasterClock", 0, 0, 0))
    /\ UNCHANGED phase

DoStopMasterClock ==
    /\ phase = "interactive"
    /\ Done(StopMasterClock(World), Op("stopMasterClock", 0, 0, 0))
    /\ UNCHANGED phase

NextReentrant ==
    \/ \E cells \in Timelines : DoUpdateTimeline(cells)
    \/ \E t \in SeekTimes : DoSetCurrentTime(t)
    \/ \E b \in BOOLEAN : DoSetPlaying(b)
    \/ \E c \in Components : Mount(c)
    \/ \E r \in Reactions : SubscribeReactive("time", r)
    \/ DoStartMasterClock
    \/ DoStopMasterClock
    \/ \E d \in Deltas : Tick(d)

SpecReentrant == InitVTM /\ [][NextReentrant]_vars

\* C6: at most one master clock callback is pending at any time
C6_SingleClock == Len(raf) <= 1

----
\* Claims about the master clock, for the manager as the components use it
\* (SpecVTM).

Notified(l, ch) == \E i \in DOMAIN l : l[i].kind = "notify" /\ l[i].ch = ch

\* every subscriber of the channel was called
CalledAll(l, v, ch) ==
    \A k \in DOMAIN Callbacks(v, ch) :
        \E i \in Calls(l) : l[i].ch = ch /\ l[i].sub = Callbacks(v, ch)[k]

Delivered(l, v, ch) == Notified(l, ch) /\ CalledAll(l, v, ch)

\* this step is a clock tick with a valid delta that reaches the end while playing
EndTick ==
    /\ lastOp'.op = "tick"
    /\ raf # <<>>
    /\ vtm.playing
    /\ ValidDelta(lastOp'.a)
    /\ vtm.currentTime + lastOp'.a >= vtm.totalDuration

Stopped ==
    /\ vtm'.currentTime = vtm'.totalDuration
    /\ ~vtm'.playing
    /\ raf' = <<>>
    /\ vtm'.masterClockRef = Null

\* C7: the tick that reaches the end stops playback and delivers the stop as a
\* full notification: the subscribers of all three channels are notified
C7_StopIsFullNotify ==
    [][EndTick => (Stopped /\ \A ch \in Channels : Delivered(log', vtm', ch))]_vars

\* what masterClockLoop does deliver: setPlaying(false) notifies the
\* timeline-state subscribers, and updateCurrentTimeInternal notifies the
\* current-time and player-instruction subscribers only if the playhead moved
EndTickDelivery ==
    [][EndTick =>
        /\ Stopped
        /\ Delivered(log', vtm', "timeline")
        /\ vtm.currentTime < vtm.totalDuration =>
              Delivered(log', vtm', "time") /\ Delivered(log', vtm', "player")
        /\ vtm.currentTime >= vtm.totalDuration =>
              ~Notified(log', "time") /\ ~Notified(log', "player")]_vars

\* the user stops interacting: from now on only animation frames with a
\* non-anomalous delta happen
HandsOff ==
    /\ phase = "interactive"
    /\ phase' = "handsoff"
    /\ lastOp' = Op("handsOff", 0, 0, 0)
    /\ UNCHANGED <<heap, smCells, canvasCells, nextId, vtm, raf, sinceFrame, subs, log, ui>>

ValidTick == \E d \in Deltas : ValidDelta(d) /\ Tick(d)

\* the calls that start, seek and stop playback, the frames, and the moment
\* the callers go quiet
NextLive ==
    \/ \E cells \in Timelines : DoUpdateTimeline(cells)
    \/ \E t \in SeekTimes : DoSetCurrentTime(t)
    \/ \E b \in BOOLEAN : DoSetPlaying(b)
    \/ \E c \in Components : Mount(c)
    \/ \E d \in Deltas : Tick(d)
    \/ HandsOff

\* requestAnimationFrame: a callback that stays pending is eventually run
SpecLive == InitVTM /\ [][NextLive]_vars /\ WF_vars(ValidTick)

\* liveness needs the fairness: without it a playing manager may stutter forever
SpecLiveUnfair == InitVTM /\ [][NextLive]_vars

\* C8: left alone while playing, the manager eventually pauses at the end of
\* the timeline with no clock callback pending
C8_PlaybackEnds ==
    (phase = "handsoff" /\ vtm.playing) ~>
        (~vtm.playing /\ vtm.currentTime = vtm.totalDuration /\ raf = <<>>)

\* playback was left alone and has run into the end of a non-empty timeline
C8_Witness ==
    /\ phase = "handsoff"
    /\ lastOp.op = "tick"
    /\ ~vtm.playing
    /\ vtm.totalDuration > 0
    /\ vtm.currentTime = vtm.totalDuration
    /\ raf = <<>>

Schedules(l) == { i \in DOMAIN l : l[i].kind = "schedule" }

\* C9: setPlaying(true) at the end of the timeline rewinds to 0 before the
\* clock is started, and returns playing with the clock scheduled
C9_ReplayFromStart ==
    [][(/\ lastOp'.op = "setPlaying"
        /\ lastOp'.s = "true"
        /\ ~vtm.playing
        /\ vtm.currentTime >= vtm.totalDuration) =>
            /\ vtm'.currentTime = 0
            /\ vtm'.playing
            /\ Len(raf') = 1
            /\ vtm'.masterClockRef = raf'[1]
            /\ Schedules(log') # {}
            /\ \A i \in Schedules(log') : log'[i].currentTime = 0]_vars

\* play was pressed at the end of a non-empty timeline: the time channel was
\* told 0 and the manager is playing
C9_Witness ==
    /\ lastOp.op = "setPlaying"
    /\ lastOp.s = "true"
    /\ vtm.playing
    /\ vtm.totalDuration > 0
    /\ vtm.currentTime = 0
    /\ \E i \in DOMAIN log : log[i].kind = "notify" /\ log[i].ch = "time" /\ log[i].arg = 0

\* C10: a tick with a delta <= 0 or >= 0.1 s changes neither the time nor the
\* playing state, notifies nobody and reschedules the clock; no tick advances
\* the time by 0.1 s or more
C10_AnomalousTickSkipped ==
    [][(lastOp'.op = "tick" /\ raf # <<>>) =>
        /\ ~ValidDelta(lastOp'.a) =>
              /\ vtm'.currentTime = vtm.currentTime
              /\ vtm'.playing = vtm.playing
              /\ \A i \in DOMAIN log' : log'[i].kind = "schedule"
              /\ Len(raf') = 1
              /\ vtm'.masterClockRef = raf'[1]
        /\ vtm'.currentTime - vtm.currentTime < MaxDelta]_vars

\* a tick with a delta of 0.5 s happened in the middle of playback
C10_Witness ==
    /\ lastOp.op = "tick"
    /\ lastOp.a = 1000
    /\ vtm.playing
    /\ 0 < vtm.currentTime
    /\ vtm.currentTime < vtm.totalDuration
    /\ Len(raf) = 1

(***************************************************************************)
(* Clients whose callbacks throw or unsubscribe while they are notified    *)
(***************************************************************************)

MaxListeners == 3

\* a client subscribes one callback to each channel, as the player panel does
RECURSIVE SubscribedEach(_, _, _)
SubscribedEach(w0, chs, behaviour) ==
    Then(w0, LAMBDA w :
        IF chs = <<>> THEN w
        ELSE SubscribedEach(Subscribed(w, Head(chs), behaviour), Tail(chs), behaviour))

ListenerChannels == <<"player", "time", "timeline">>

Listen(behaviour) ==
    /\ phase = "interactive"
    /\ \A ch \in Channels : Len(subs[ch]) < MaxListeners
    /\ Done(SubscribedEach(World, ListenerChannels, behaviour),
            OpText("listen", behaviour.react))
    /\ UNCHANGED phase

Passive == [react |-> "none", armed |-> FALSE, target |-> 0]
Throwing == [react |-> "throw", armed |-> FALSE, target |-> 0]
Unsubscribing(target) == [react |-> "unsubscribe", armed |-> TRUE, target |-> target]

\* a seek to the start and one past the end; a valid frame and a long one
ListenerSeeks == {0, 5000}
ListenerDeltas == {199, 1000}

\* the timelines of these clients: empty or one clip
ListenerTimelines == { cells \in Timelines : Len(cells) <= 1 }

InitListeners ==
    /\ heap = <<>>
    /\ smCells = <<>>
    /\ canvasCells = <<>>
    /\ sinceFrame = 0
    /\ ui = NoUi
    /\ nextId = 1
    /\ \E initialCells \in ListenerTimelines :
          \E w \in {Constructed(initialCells)} :
              /\ vtm = w.v
              /\ raf = w.raf
              /\ subs = w.subs
              /\ log = w.log
    /\ lastOp = Op("init", 0, 0, 0)
    /\ phase = "interactive"

NextListeners ==
    \/ \E cells \in ListenerTimelines : DoUpdateTimeline(cells)
    \/ \E t \in ListenerSeeks : DoSetCurrentTime(t)
    \/ \E b \in BOOLEAN : DoSetPlaying(b)
    \/ DoUpdateZoomSystem(vtm.zoomSystem)
    \/ \E d \in ListenerDeltas : Tick(d)
    \/ \E behaviour \in {Passive, Throwing} : Listen(behaviour)

SpecListeners == InitListeners /\ [][NextListeners]_vars

NextUnsubscribe ==
    \/ \E t \in SeekTimes : DoSetCurrentTime(t)
    \/ \E z \in ZoomLevels : DoUpdateZoomSystem(z)
    \/ Listen(Passive)
    \/ \E target \in 1..MaxListeners : Listen(Unsubscribing(target))

SpecUnsubscribe == InitListeners /\ [][NextUnsubscribe]_vars

\* the notification rounds of a handler's log, and the calls made in a round
Rounds(l) == { i \in DOMAIN l : l[i].kind = "notify" }
RoundEnd(l, i) ==
    IF \E j \in Rounds(l) : j > i
    THEN CHOOSE j \in Rounds(l) : j > i /\ \A k \in Rounds(l) : k > i => j <= k
    ELSE Len(l) + 1
RoundCalls(l, i) ==
    SelectSeq(SubSeq(l, i + 1, RoundEnd(l, i) - 1),
              LAMBDA e : e.kind = "call" /\ e.ch = l[i].ch)
CallsTo(l, i, sub) ==
    { j \in DOMAIN RoundCalls(l, i) : RoundCalls(l, i)[j].sub = sub }

\* C11: when a callback unsubscribes itself or another callback during a
\* notification round, every callback that is still subscribed afterwards is
\* called exactly once in that round
C11_UnsubscribeDuringRound ==
    [][\A i \in Rounds(log') :
          Callbacks(vtm', log'[i].ch) # Callbacks(vtm, log'[i].ch)
          => \A sub \in Range(Callbacks(vtm', log'[i].ch)) :
                Cardinality(CallsTo(log', i, sub)) = 1]_vars

\* the same clients with callbacks that return normally
Quiet(w) ==
    [w EXCEPT !.subs = [ch \in Channels |-> [i \in DOMAIN w.subs[ch] |-> Passive]]]

\* what a handler's log holds apart from the exceptions thrown and caught
Silent(l) == SelectSeq(l, LAMBDA e : e.kind \notin {"throw", "error"})

\* the outcomes of the call that op records, made in the world w
Replays(w, op) ==
    CASE op.op = "setCurrentTime" -> {SetCurrentTime(w, op.a)}
      [] op.op = "setPlaying" -> {SetPlaying(w, op.s = "true")}
      [] op.op = "updateZoomSystem" -> {UpdateZoomSystem(w, op.s)}
      [] op.op = "tick" -> {MasterClockLoop(Fired(w), op.a)}
      [] op.op = "updateTimeline" ->
            { UpdateTimeline(w, cells) : cells \in { c \in ListenerTimelines : Len(c) = op.a } }
      [] OTHER -> {}

Throws(l) == { i \in DOMAIN l : l[i].kind = "throw" }

\* C12: a callback that throws changes nothing but the error it logs: the call
\* that triggered the notification leaves the manager's state, the pending
\* animation frames and the calls and notifications made to the subscribers of
\* every channel exactly as they are when no callback throws
C12_ThrowIsContained ==
    [][Throws(log') # {}
       => \E quiet \in Replays(Quiet(World), lastOp') :
             /\ vtm' = quiet.v
             /\ raf' = quiet.raf
             /\ Silent(log') = quiet.log]_vars

\* a tick in which the first time subscriber threw, the next time subscriber and
\* a player subscriber were still called, and the clock was rescheduled
C12_Witness ==
    /\ lastOp.op = "tick"
    /\ raf # <<>>
    /\ \E i, j, k, m \in DOMAIN log :
          /\ i < j /\ j < k /\ k < m
          /\ log[i].kind = "error" /\ log[i].ch = "time"
          /\ log[j].kind = "call" /\ log[j].ch = "time"
          /\ log[k].kind = "call" /\ log[k].ch = "player"
          /\ log[m].kind = "schedule"

\* the subscribers called in a round, in the order of the calls
RoundOrder(l, i) == [j \in DOMAIN RoundCalls(l, i) |-> RoundCalls(l, i)[j].sub]

ExecutedBy(op) ==
    CASE op.op = "Add" ->
            { AddExecute(heap, smCells, op.a, m, op.b, op.b # Undefined) : m \in MediaIds }
      [] op.op = "Remove" -> {RemoveExecute(heap, smCells, op.a)}
      [] op.op = "Move" -> {MoveExecute(heap, smCells, op.a, op.b)}
      [] op.op = "Trim" -> {TrimExecute(heap, smCells, op.a, op.b, op.c)}
      [] OTHER -> {}

\* the clip objects of the array the operation started from, read afterwards
SnapshotAfter(result) == [i \in DOMAIN smCells |-> result.h[smCells[i]]]

\* C14: after Add, Remove, Move or Trim every clip object of the cells array
\* the operation started from still has the values it had before
C14_SnapshotUntouched ==
    [][lastOp'.op \in EditOps
       => \A result \in ExecutedBy(lastOp') : SnapshotAfter(result) = Stored]_vars

\* the stored clips that the last operation addressed
Addressed == { i \in DOMAIN Stored : Stored[i].id = lastOp.a }

\* C15: after Trim the trim values stored on the clip are not negative and
\* leave at least the minimum effective duration of the clip
C15_TrimClamped ==
    lastOp.op = "Trim"
    => \A i \in Addressed :
          /\ Stored[i].trimStart >= 0
          /\ Stored[i].trimEnd >= 0
          /\ Stored[i].trimStart + Stored[i].trimEnd
                <= OrZero(Stored[i].duration) - MinEffective

\* the duration of the referenced media: the source duration of a video, the
\* default for an image
MediaDuration(mediaNodeId) ==
    GetClipDuration([mediaNodeId |-> mediaNodeId, duration |-> Undefined], Nodes)

\* C16: Add stores exactly one new clip, at the given index or at the end when
\* none is given, with both trims 0 and the duration of its media, and the clip
\* keeps that duration through the next recompute of the timeline state
C16_AddInsertsMediaClip ==
    [][lastOp'.op = "Add"
       => LET new == { i \in DOMAIN Stored' : Stored'[i].id = lastOp'.a }
          IN  /\ Len(Stored') = Len(Stored) + 1
              /\ Cardinality(new) = 1
              /\ \A i \in new :
                    /\ lastOp'.b = Undefined => i = Len(Stored')
                    /\ lastOp'.b \in 0..Len(Stored) => i = lastOp'.b + 1
                    /\ Stored'[i].trimStart = 0
                    /\ Stored'[i].trimEnd = 0
                    /\ Stored'[i].duration = MediaDuration(Stored'[i].mediaNodeId)
                    /\ MigrateToTimeBasedLayout(Stored', Nodes)[i].duration
                          = MediaDuration(Stored'[i].mediaNodeId)]_vars

\* the clip list an operation hands over, as values
Values(result) == [i \in DOMAIN result.cells |-> result.h[result.cells[i]]]

RemoveTwice(cellId) ==
    LET first == RemoveExecute(heap, smCells, cellId)
    IN  <<first, RemoveExecute(first.h, first.cells, cellId)>>

MoveTwice(cellId, newPosition) ==
    LET first == MoveExecute(heap, smCells, cellId, newPosition)
    IN  <<first, MoveExecute(first.h, first.cells, cellId, newPosition)>>

TrimTwice(cellId, trimStart, trimEnd) ==
    LET first == TrimExecute(heap, smCells, cellId, trimStart, trimEnd)
    IN  <<first, TrimExecute(first.h, first.cells, cellId, trimStart, trimEnd)>>

\* the second execution draws its own cell id, as every execution does
AddTwice(mediaNodeId, position, given) ==
    LET first == AddExecute(heap, smCells, nextId, mediaNodeId, position, given)
    IN  <<first, AddExecute(first.h, first.cells, nextId + 1, mediaNodeId, position, given)>>

Same(twice) == Values(twice[2]) = Values(twice[1])

\* C17 (amended): Remove, Move and Trim are idempotent: executed a second time
\* with the same parameters on the result of the first execution, each yields
\* a clip list equal to that result
C17_RemoveMoveTrimIdempotent ==
    /\ \A id \in 1..MaxAdds : Same(RemoveTwice(id))
    /\ \A id \in 1..MaxAdds, p \in -1..MaxClips : Same(MoveTwice(id, p))
    /\ \A id \in 1..MaxAdds, trim \in TrimParams : Same(TrimTwice(id, trim[1], trim[2]))

\* a list of three clips in which a Remove, a Move and a Trim each change the list
C17_Witness ==
    /\ Len(Stored) = 3
    /\ \E id \in 1..MaxAdds : Values(RemoveTwice(id)[1]) # Stored
    /\ \E id \in 1..MaxAdds, p \in -1..MaxClips : Values(MoveTwice(id, p)[1]) # Stored
    /\ \E id \in 1..MaxAdds, trim \in TrimParams :
          Values(TrimTwice(id, trim[1], trim[2])[1]) # Stored

\* C17 as stated: all four operations, Add included, are idempotent
C17_AllIdempotent ==
    /\ C17_RemoveMoveTrimIdempotent
    /\ \A m \in MediaIds : Same(AddTwice(m, 0, FALSE))
    /\ \A m \in MediaIds, p \in 0..MaxClips : Same(AddTwice(m, p, TRUE))

(***************************************************************************)
(* Teardown: the components unmount, or useMemo replaces the instance      *)
(***************************************************************************)

\* the cleanup functions of the subscribing effects call the unsubscribe
\* functions; nothing else is done to the instance that is let go
Unmounted(w) ==
    [w EXCEPT !.v.timelineChangeCallbacks = <<>>,
              !.v.currentTimeChangeCallbacks = <<>>,
              !.v.videoPlayerCallbacks = <<>>]

\* from here on only the browser touches the instance, through the animation
\* frame callbacks it still has
Teardown ==
    /\ phase = "interactive"
    /\ Done(Unmounted(World), OpText("teardown", IF vtm.playing THEN "true" ELSE "false"))
    /\ phase' = "discarded"

NextTeardown ==
    \/ \E cells \in Timelines : DoUpdateTimeline(cells)
    \/ \E t \in ListenerSeeks : DoSetCurrentTime(t)
    \/ \E b \in BOOLEAN : DoSetPlaying(b)
    \/ \E c \in Components : Mount(c)
    \/ \E d \in Deltas : Tick(d)
    \/ Teardown

SpecTeardown == InitVTM /\ [][NextTeardown]_vars

\* C18: once an instance has been torn down, none of its animation frame
\* callbacks is scheduled, also when it was Playing at that moment
C18_TornDownClockStopped == phase = "discarded" => raf = <<>>

(***************************************************************************)
(* The mapping on clip lists whose start times were set directly           *)
(***************************************************************************)

\* start times as MoveTimelineClipOperation leaves them: any value, so that
\* clips may overlap and may leave gaps
MovedStartTimes == {0, 100, 800}

MovedTimelines ==
    UNION { { [i \in 1..n |-> [RawCells(shapes)[i] EXCEPT !.startTime = starts[i]]] :
                shapes \in [1..n -> ClipShapes], starts \in [1..n -> MovedStartTimes] } :
            n \in 1..MaxTimelineClips }

InitMoved ==
    /\ heap = <<>>
    /\ smCells = <<>>
    /\ canvasCells = <<>>
    /\ sinceFrame = 0
    /\ ui = NoUi
    /\ nextId = 1
    /\ \E initialCells \in MovedTimelines :
          \E w \in {Constructed(initialCells)} :
              /\ vtm = w.v
              /\ raf = w.raf
              /\ subs = w.subs
              /\ log = w.log
    /\ lastOp = Op("init", 0, 0, 0)
    /\ phase = "interactive"

NextMoved ==
    \/ \E cells \in MovedTimelines : DoUpdateTimeline(cells)
    \/ \E t \in QueryTimes : QueryGlobalTime(t)

SpecMoved == InitMoved /\ [][NextMoved]_vars

EndTimeOf(cell) == OrZero(cell.startTime) + VtmGetEffectiveDuration(cell)

\* two clips of the list share more than a point in time
Overlapping(cells) ==
    \E i, j \in DOMAIN cells :
        /\ i < j
        /\ OrZero(cells[j].startTime) < EndTimeOf(cells[i])
        /\ OrZero(cells[i].startTime) < EndTimeOf(cells[j])

\* in start order the first clip starts at 0 and every other clip starts no
\* later than the clips before it end
Gapless(cells) ==
    /\ OrZero(cells[1].startTime) = 0
    /\ \A i \in 2..Len(cells) : OrZero(cells[i].startTime) <= MaxEndTime(cells, i - 1)

\* a time before the end that no clip contains or starts within epsilon of
InGap(cells, t) ==
    /\ t < VtmCalculateTotalDuration(cells)
    /\ \A i \in DOMAIN cells :
          t <= OrZero(cells[i].startTime) - Epsilon \/ t >= EndTimeOf(cells[i])

OverlapQueried ==
    /\ lastOp.op = "globalTimeToClipPosition"
    /\ Len(vtm.cells) > 0
    /\ Overlapping(vtm.cells)
    /\ lastOp.a \in 0..vtm.totalDuration

\* C19 (amended): on a non-empty list with overlapping clips the mapping
\* returns a position for every time in [0, totalDuration] when the clips
\* leave no gap, and returns null exactly for the times that lie in a gap
C19_OverlapMapsUnlessGap ==
    OverlapQueried
    => /\ Gapless(vtm.cells) => lastOp.r # NullPosition
       /\ lastOp.r = NullPosition <=> InGap(vtm.cells, lastOp.a)

\* an inner time that only the longer of two overlapping clips contains, and
\* the end of that list, were mapped
C19_Witness ==
    /\ OverlapQueried
    /\ Gapless(vtm.cells)
    /\ Len(vtm.cells) = 2
    /\ EndTimeOf(vtm.cells[2]) < vtm.totalDuration
    /\ lastOp.a > EndTimeOf(vtm.cells[2])
    /\ lastOp.r.clipIndex = 0

\* C19 as stated: with overlapping clips every time in [0, totalDuration] maps
C19_OverlapAlwaysMaps == OverlapQueried => lastOp.r # NullPosition

(***************************************************************************)
(* The mapping functions on inputs outside their range                     *)
(***************************************************************************)

\* virtualTimeline.clipPositionToGlobalTime(clipIndex, clipTime)
QueryClipPosition(clipIndex, clipTime) ==
    /\ lastOp' = Op("clipPositionToGlobalTime", clipIndex, clipTime,
                    ClipPositionToGlobalTime(vtm, clipIndex, clipTime))
    /\ UNCHANGED <<heap, smCells, canvasCells, nextId, vtm, raf, sinceFrame, subs, log, ui,
                 phase>>

\* times far outside the timeline as well as the ones around the boundaries
FarTimes == {-5000, 5000}

\* clip times below 0, inside a clip, and beyond the end of every clip
AnyClipTimes == {-5000, -1, 0, 1, 150, 299, 300, 301, 400, 5000}

NextClamp ==
    \/ \E t \in QueryTimes \cup FarTimes : QueryGlobalTime(t)
    \/ \E i \in -1..Len(vtm.cells) : \E t \in AnyClipTimes : QueryClipPosition(i, t)

SpecClamp == InitMap /\ [][NextClamp]_vars

\* C20: on a non-empty gap-free timeline a time below 0 maps as 0 does and a
\* time above totalDuration maps as totalDuration does, both to a clip;
\* clipPositionToGlobalTime gives the clip's start time plus the clip time
\* limited to [0, effective duration] for an index of the list, and 0 for any
\* other index
C20_OutOfRangeClamped ==
    /\ (/\ lastOp.op = "globalTimeToClipPosition"
        /\ Len(vtm.cells) > 0
        /\ lastOp.a < 0)
       => /\ lastOp.r = GlobalTimeToClipPosition(vtm, 0)
          /\ lastOp.r # NullPosition
    /\ (/\ lastOp.op = "globalTimeToClipPosition"
        /\ Len(vtm.cells) > 0
        /\ lastOp.a > vtm.totalDuration)
       => /\ lastOp.r = GlobalTimeToClipPosition(vtm, vtm.totalDuration)
          /\ lastOp.r # NullPosition
    /\ lastOp.op = "clipPositionToGlobalTime"
       => IF lastOp.a \in 0..(Len(vtm.cells) - 1)
          THEN LET cell == vtm.cells[lastOp.a + 1]
               IN  lastOp.c = cell.startTime
                              + Min(Max(lastOp.b, 0), GetEffectiveDuration(cell))
          ELSE lastOp.c = 0

\* a time far beyond the end of a two-clip timeline was mapped to the end of
\* the second clip
C20_Witness ==
    /\ lastOp.op = "globalTimeToClipPosition"
    /\ Len(vtm.cells) = 2
    /\ lastOp.a > vtm.totalDuration + MaxDelta
    /\ lastOp.r.clipIndex = 1
    /\ lastOp.r.clipTime = GetEffectiveDuration(vtm.cells[2])

(***************************************************************************)
(* What each call to the manager notifies                                  *)
(***************************************************************************)

\* C21: updateZoomSystem stores the new zoom system and notifies all three
\* channels: every subscriber of every channel is called
C21_ZoomIsFullNotify ==
    lastOp.op = "updateZoomSystem"
    => /\ vtm.zoomSystem = lastOp.s
       /\ \A ch \in Channels : Delivered(log, vtm, ch)

(***************************************************************************)
(* The two computations of the total duration                              *)
(***************************************************************************)

RECURSIVE TotalAfter(_, _, _)
\* totalDuration of timelineUtils after its forEach has visited n cells: a
\* cell whose media node is not found is passed over
TotalAfter(cells, nodes, n) ==
    IF n = 0 THEN 0
    ELSE TotalAfter(cells, nodes, n - 1)
         + (IF FindNode(nodes, cells[n].mediaNodeId) = 0 THEN 0
            ELSE GetEffectiveDuration(cells[n]))

\* timelineUtils.calculateTotalDuration(cells, nodes)
CalculateTotalDuration(cells, nodes) ==
    IF Len(cells) = 0 THEN 0 ELSE TotalAfter(cells, nodes, Len(cells))

\* timelineUtils.updateTimelineState(sceneEditor, nodes)
UpdateTimelineState(cells, nodes) ==
    LET migratedCells == MigrateToTimeBasedLayout(cells, nodes)
    IN  [cells |-> migratedCells,
         totalDuration |-> CalculateTotalDuration(migratedCells, nodes)]

\* media references of stored clips: two items of the library and one that
\* was deleted from it
MediaRefs == {"video1", "image1", "gone"}

SceneEditorCells ==
    UNION { { [i \in 1..n |-> [RawCells(shapes)[i] EXCEPT !.mediaNodeId = refs[i]]] :
                shapes \in [1..n -> ClipShapes], refs \in [1..n -> MediaRefs] } :
            n \in 0..MaxTimelineClips }

\* the effect of the timeline area that runs when the scene editor changes:
\* updateTimelineState, then vtm.updateTimeline(updated.cells)
SceneEditorChanged(cells) ==
    /\ phase = "interactive"
    /\ \E updated \in {UpdateTimelineState(cells, Nodes)} :
          Done(UpdateTimeline(World, updated.cells),
               Op("updateTimelineState", Len(cells), updated.totalDuration, 0))
    /\ UNCHANGED phase

NextTotals ==
    \/ \E cells \in SceneEditorCells : SceneEditorChanged(cells)
    \/ \E t \in SeekTimes : DoSetCurrentTime(t)

SpecTotals == InitVTM /\ [][NextTotals]_vars

\* C22: for every clip list, with or without its media in the library, the
\* total duration of timelineUtils and the one of the manager are both the
\* largest startTime + effective duration of the list, 0 for the empty list
C22_TotalsAgree ==
    lastOp.op = "updateTimelineState"
    => /\ vtm.totalDuration = (IF vtm.cells = <<>> THEN 0
                               ELSE MaxEndTime(vtm.cells, Len(vtm.cells)))
       /\ lastOp.b = vtm.totalDuration

(***************************************************************************)
(* The Edit Operations together with the move to a given time              *)
(***************************************************************************)

RECURSIVE InsertRefByStartTime(_, _, _)
InsertRefByStartTime(h, sorted, r) ==
    IF sorted = <<>> THEN <<r>>
    ELSE IF OrZero(h[sorted[Len(sorted)]].startTime) - OrZero(h[r].startTime) > 0
         THEN Append(InsertRefByStartTime(h, SubSeq(sorted, 1, Len(sorted) - 1), r),
                     sorted[Len(sorted)])
         ELSE Append(sorted, r)

RECURSIVE SortRefsByStartTime(_, _)
\* updatedCells.sort((a, b) => (a.startTime || 0) - (b.startTime || 0)), stable
SortRefsByStartTime(h, refs) ==
    IF refs = <<>> THEN <<>>
    ELSE InsertRefByStartTime(h, SortRefsByStartTime(h, SubSeq(refs, 1, Len(refs) - 1)),
                              refs[Len(refs)])

\* the variant that leaves the array in the order it had
MoveTimelineExecuteUnsorted(h, cells, cellId, newStartTime) ==
    LET hit == { i \in DOMAIN cells : h[cells[i]].id = cellId }
        h1 == [r \in DOMAIN h |->
                 IF r \in { cells[i] : i \in hit }
                 THEN [h[r] EXCEPT !.startTime = newStartTime] ELSE h[r]]
    IN  [h |-> RenumberPositions(h1, cells), cells |-> cells, stored |-> TRUE]

\* MoveTimelineClipOperation.execute: the addressed cell is copied with the new
\* start time, the new array is sorted by start time and renumbered
MoveTimelineExecute(h, cells, cellId, newStartTime) ==
    LET hit == { i \in DOMAIN cells : h[cells[i]].id = cellId }
        fresh == [i \in hit |-> Len(h) + Cardinality({ j \in hit : j <= i })]
        h1 == h \o [k \in 1..Cardinality(hit) |->
                      LET i == CHOOSE i \in hit : fresh[i] = Len(h) + k
                      IN  [h[cells[i]] EXCEPT !.startTime = newStartTime]]
        mapped == [i \in DOMAIN cells |-> IF i \in hit THEN fresh[i] ELSE cells[i]]
        updatedCells == SortRefsByStartTime(h1, mapped)
    IN  [h |-> RenumberPositions(h1, updatedCells), cells |-> updatedCells,
         stored |-> TRUE]

\* the start times a clip is dragged to
DropTimes == {250}

\* new MoveTimelineClipOperation(cellId, newStartTime).execute(context)
MoveTimeline(cellId, newStartTime) ==
    /\ Commit(MoveTimelineExecute(heap, smCells, cellId, newStartTime))
    /\ lastOp' = Op("MoveTimeline", cellId, newStartTime, 0)
    /\ UNCHANGED nextId
    /\ VtmUnchanged

NextEditTime ==
    \/ NextEdit
    \/ \E id \in 1..MaxAdds, t \in DropTimes : MoveTimeline(id, t)

SpecEditTime == InitEdit /\ [][NextEditTime]_vars

ClipDurations == {Undefined, 0, 150, 300, 700}
ClipTrims == {Undefined, 0, 100, 400}

MeasuredClips ==
    { [id |-> 1, mediaNodeId |-> "video1", position |-> 0, startTime |-> 0,
       duration |-> duration, trimStart |-> trimStart, trimEnd |-> trimEnd] :
        duration \in ClipDurations, trimStart \in ClipTrims, trimEnd \in ClipTrims }

\* getEffectiveDuration(cell) of timelineUtils and of the manager for the
\* clip at clipIndex
MeasureClip(clipIndex) ==
    /\ lastOp' = Op("getEffectiveDuration",
                    GetEffectiveDuration(vtm.cells[clipIndex + 1]),
                    VtmGetEffectiveDuration(vtm.cells[clipIndex + 1]), clipIndex)
    /\ UNCHANGED <<heap, smCells, canvasCells, nextId, vtm, raf, sinceFrame, subs, log, ui,
                 phase>>

NextMeasure ==
    \/ \E cell \in MeasuredClips : DoUpdateTimeline(<<cell>>)
    \/ \E i \in 0..(Len(vtm.cells) - 1) : MeasureClip(i)

SpecMeasure == InitVTM /\ [][NextMeasure]_vars

Measured == vtm.cells[lastOp.c + 1]

\* C24: for a clip whose trims are not negative both implementations give
\* max(0.1 s, duration - trimStart - trimEnd), which is at least 0.1 s
C24_EffectiveDuration ==
    (/\ lastOp.op = "getEffectiveDuration"
     /\ Measured.trimStart >= 0
     /\ Measured.trimEnd >= 0)
    => /\ lastOp.a = Max(MinEffective, OrZero(Measured.duration)
                                       - Measured.trimStart - Measured.trimEnd)
       /\ lastOp.a >= MinEffective
       /\ lastOp.b = lastOp.a

\* a clip trimmed to less than the minimum was measured
C24_Witness ==
    /\ lastOp.op = "getEffectiveDuration"
    /\ Measured.duration = 300
    /\ Measured.trimStart = 100
    /\ Measured.trimEnd = 400
    /\ lastOp.a = MinEffective

(***************************************************************************)
(* Recomputing the start times of a list that was already recomputed       *)
(***************************************************************************)

\* clips with and without a duration of their own
UnmigratedShapes == ClipShapes \cup {<<Undefined, 0, 0>>}

UnmigratedCells ==
    { RawCells(shapes) :
        shapes \in UNION { [1..n -> UnmigratedShapes] : n \in 0..MaxTimelineClips } }

NextMigrate ==
    \/ \E cells \in UnmigratedCells : SceneEditorChanged(cells)
    \/ \E t \in SeekTimes : DoSetCurrentTime(t)

SpecMigrate == InitVTM /\ [][NextMigrate]_vars

\* C25: migrateToTimeBasedLayout applied to its own output, the list that the
\* manager was handed, gives that output
C25_MigrateIdempotent ==
    lastOp.op = "updateTimelineState"
    => MigrateToTimeBasedLayout(vtm.cells, Nodes) = vtm.cells

----
\* TimelineContext: the canvas of the TimelineProvider state next to the canvas
\* of the state manager it hands to the Edit Operations.

\* the cells array of the TimelineProvider state, as values
CanvasStored == [i \in DOMAIN canvasCells |-> heap[canvasCells[i]]]

ProviderMediaIds == {"video1", "gone"}
ProviderTrims == {<<300, 0>>}

\* the updater of addMediaToTimeline applied to the provider's cells: the new
\* array shares the cell objects of the previous one
AddMediaToTimelineUpdate(h, cells, cellId, mediaNodeId) ==
    LET n == FindNode(Nodes, mediaNodeId)
        isVideo == Nodes[n].type = "video"
        lastCell == h[cells[Len(cells)]]
        fallback == IF isVideo THEN OrZero(Nodes[n].duration) ELSE DEFAULT_IMAGE_DURATION
        lastCellDuration ==
            IF OrZero(lastCell.duration) # 0 THEN lastCell.duration
            ELSE IF fallback # 0 THEN fallback
            ELSE DEFAULT_IMAGE_DURATION
        effectiveDuration ==
            lastCellDuration - OrZero(lastCell.trimStart) - OrZero(lastCell.trimEnd)
        startTime ==
            IF Len(cells) > 0 THEN OrZero(lastCell.startTime) + effectiveDuration
            ELSE 0
        newCell == [id |-> cellId, mediaNodeId |-> mediaNodeId,
                    position |-> Len(cells), startTime |-> startTime,
                    duration |-> IF isVideo THEN Nodes[n].duration
                                 ELSE DEFAULT_IMAGE_DURATION,
                    trimStart |-> 0, trimEnd |-> 0]
    IN  IF n = 0 THEN [h |-> h, cells |-> cells, stored |-> FALSE]
        ELSE [h |-> Append(h, newCell), cells |-> Append(cells, Len(h) + 1),
              stored |-> TRUE]

\* addMediaToTimeline(mediaNodeId) and the effect on [canvas] that follows the
\* render: stateManager.updateCanvas(canvas) makes the provider's array the
\* state manager's array; a returned prev renders nothing and runs no effect
AddMediaToTimeline(mediaNodeId) ==
    /\ nextId <= MaxAdds
    /\ Len(canvasCells) < MaxClips
    /\ \E result \in {AddMediaToTimelineUpdate(heap, canvasCells, nextId, mediaNodeId)} :
          IF result.stored
          THEN /\ heap' = [i \in DOMAIN result.cells |-> result.h[result.cells[i]]]
               /\ canvasCells' = [i \in DOMAIN result.cells |-> i]
               /\ smCells' = canvasCells'
               /\ nextId' = nextId + 1
          ELSE UNCHANGED <<heap, smCells, canvasCells, nextId>>
    /\ lastOp' = OpText("addMediaToTimeline", mediaNodeId)
    /\ VtmUnchanged

NextProvider ==
    \/ \E m \in ProviderMediaIds : AddMediaToTimeline(m)
    \/ \E id \in 1..MaxAdds : Remove(id)
    \/ \E id \in 1..MaxAdds, p \in 0..(MaxClips - 1) : Move(id, p)
    \/ \E id \in 1..MaxAdds, trim \in ProviderTrims : Trim(id, trim[1], trim[2])

SpecProvider == InitEdit /\ [][NextProvider]_vars

\* the value stored under an id in a clip list
ClipOf(cells, id) == cells[CHOOSE i \in DOMAIN cells : cells[i].id = id]

Ids(cells) == { cells[i].id : i \in DOMAIN cells }

\* C26: an add-to-timeline call loses no committed edit: the clip list of the
\* state manager after it holds exactly the clips it held before and the new
\* one (no removed clip is back), and every clip keeps its committed trim
C26_NoEditLost ==
    [][lastOp'.op = "addMediaToTimeline" =>
          LET before == Stored
              after == [i \in DOMAIN smCells' |-> heap'[smCells'[i]]]
          IN  /\ Ids(after) \subseteq Ids(before) \cup {nextId}
              /\ Ids(before) \subseteq Ids(after)
              /\ \A id \in Ids(before) :
                    /\ ClipOf(after, id).trimStart = ClipOf(before, id).trimStart
                    /\ ClipOf(after, id).trimEnd = ClipOf(before, id).trimEnd]_vars

----
\* The master clock in time: the delta a frame measures is the time that has
\* passed since the manager last took its frame timestamp.

MaxElapsed == 300
ElapseSteps == {50, 150}
TimedSeeks == {0, 101, 5000}

\* the browser is idle for d: performance.now() advances, no handler runs
Elapse(d) ==
    /\ phase = "interactive"
    /\ sinceFrame + d <= MaxElapsed
    /\ sinceFrame' = sinceFrame + d
    /\ lastOp' = Op("elapse", d, 0, 0)
    /\ UNCHANGED <<heap, smCells, canvasCells, nextId, vtm, raf, subs, log, ui, phase>>

\* the browser runs the pending frame callback: masterClockLoop reads
\* performance.now() and measures now - lastFrameTime
Frame == Tick(sinceFrame)

NextTimed ==
    \/ \E t \in TimedSeeks : DoSetCurrentTime(t)
    \/ \E b \in BOOLEAN : DoSetPlaying(b)
    \/ \E c \in Components : Mount(c)
    \/ \E d \in ElapseSteps : Elapse(d)
    \/ Frame

SpecTimed == InitVTM /\ [][NextTimed]_vars

\* the channel was notified exactly once and each of its subscribers called once
DeliveredOnce(l, v, ch) ==
    /\ Cardinality({ i \in Rounds(l) : l[i].ch = ch }) = 1
    /\ \A k \in DOMAIN Callbacks(v, ch) :
          Cardinality({ i \in Calls(l) :
                          l[i].ch = ch /\ l[i].sub = Callbacks(v, ch)[k] }) = 1

\* the pending frame was cancelled and a new one requested with a frame
\* timestamp taken now
ClockRestarted ==
    /\ vtm.masterClockRef \notin Range(raf') \/ vtm'.masterClockRef = vtm.masterClockRef
    /\ raf' = <<vtm'.masterClockRef>>
    /\ { i \in DOMAIN log' : log'[i].kind = "schedule" } # {}
    /\ sinceFrame' = 0

Seek ==
    /\ lastOp'.op = "setCurrentTime"
    /\ vtm'.currentTime = Max(0, Min(lastOp'.a, vtm.totalDuration))
    /\ IF vtm'.currentTime # vtm.currentTime
       THEN /\ \A ch \in Channels : DeliveredOnce(log', vtm, ch)
            /\ vtm.playing => ClockRestarted
            /\ ~vtm.playing => raf' = raf /\ sinceFrame' = sinceFrame
       ELSE /\ log' = <<>>
            /\ vtm' = vtm
            /\ raf' = raf
            /\ sinceFrame' = sinceFrame

\* the frame that runs while playing measures the time passed since the frame
\* timestamp and advances the playhead by it when it is a valid delta that
\* stays before the end
FrameAdvance ==
    (lastOp'.op = "tick" /\ vtm.playing /\ lastOp'.a = sinceFrame
        /\ ValidDelta(sinceFrame)
        /\ vtm.currentTime + sinceFrame < vtm.totalDuration)
    => vtm'.currentTime = vtm.currentTime + sinceFrame

\* C27: setCurrentTime(t) stores clamp(t, 0, totalDuration); a changed time is
\* notified once on each of the three channels and, when playing, restarts the
\* clock with a fresh frame timestamp, so that the next frame advances by the
\* time passed since the seek; an unchanged time notifies nobody and leaves the
\* clock alone
C27_SeekNotifiesAndRestarts ==
    [][(lastOp'.op = "setCurrentTime" => Seek) /\ FrameAdvance]_vars

\* a seek to a new time while playing, with subscribers on all three channels:
\* the handler requested a new frame and the frame timestamp is fresh
C27_Witness ==
    /\ lastOp.op = "setCurrentTime"
    /\ lastOp.a = 101
    /\ vtm.playing
    /\ vtm.currentTime = 101
    /\ sinceFrame = 0
    /\ \E i \in DOMAIN log : log[i].kind = "schedule"
    /\ \A ch \in Channels : Callbacks(vtm, ch) # <<>> /\ Delivered(log, vtm, ch)

----
\* this step is a clock tick that moved the playhead to a time before the end
AdvancingTick ==
    /\ lastOp'.op = "tick"
    /\ vtm'.currentTime > vtm.currentTime
    /\ vtm'.currentTime < vtm.totalDuration

\* C28: a clock tick that advances currentTime without reaching totalDuration
\* notifies the current-time and the player-instruction channel once each and
\* calls no timeline-state subscriber; playing and totalDuration stay as they are
C28_TickIsLightweight ==
    [][AdvancingTick =>
          /\ DeliveredOnce(log', vtm, "time")
          /\ DeliveredOnce(log', vtm, "player")
          /\ \A i \in DOMAIN log' : log'[i].ch # "timeline"
          /\ vtm'.playing = vtm.playing
          /\ vtm'.totalDuration = vtm.totalDuration]_vars

\* a tick of 0.0995 s from 0 while playing, with subscribers on all three channels
C28_Witness ==
    /\ lastOp.op = "tick"
    /\ lastOp.a = 199
    /\ vtm.playing
    /\ vtm.currentTime = 199
    /\ vtm.totalDuration > 199
    /\ \A ch \in Channels : Callbacks(vtm, ch) # <<>>
    /\ Notified(log, "time") /\ Notified(log, "player")

----
\* the index of the clip the last Trim addressed, in the list before the step
TrimmedIndex == CHOOSE k \in DOMAIN Stored : Stored[k].id = lastOp'.a

StoredAfter == [i \in DOMAIN smCells' |-> heap'[smCells'[i]]]

----
\* the ids of a clip list in array order, one id left out
OrderWithout(cells, id) ==
    SelectSeq([i \in DOMAIN cells |-> cells[i].id], LAMBDA x : x # id)

\* the clips other than id are the same in both lists: same relative order,
\* same media reference, duration and trim values
OthersKept(before, after, id) ==
    /\ OrderWithout(after, id) = OrderWithout(before, id)
    /\ \A other \in Ids(before) \ {id} :
          /\ ClipOf(after, other).mediaNodeId = ClipOf(before, other).mediaNodeId
          /\ ClipOf(after, other).duration = ClipOf(before, other).duration
          /\ ClipOf(after, other).trimStart = ClipOf(before, other).trimStart
          /\ ClipOf(after, other).trimEnd = ClipOf(before, other).trimEnd

MoveInRange ==
    /\ lastOp'.op = "Move"
    /\ lastOp'.a \in Ids(Stored)
    /\ 0 <= lastOp'.b /\ lastOp'.b <= Len(Stored) - 1
    => /\ Len(StoredAfter) = Len(Stored)
       /\ StoredAfter[lastOp'.b + 1].id = lastOp'.a
       /\ StoredAfter[lastOp'.b + 1].position = lastOp'.b
       /\ OthersKept(Stored, StoredAfter, lastOp'.a)

MoveUnknown ==
    (lastOp'.op = "Move" /\ lastOp'.a \notin Ids(Stored))
    => /\ ~MoveExecute(heap, smCells, lastOp'.a, lastOp'.b).stored
       /\ StoredAfter = Stored

RemoveExact ==
    lastOp'.op = "Remove"
    => /\ Ids(StoredAfter) = Ids(Stored) \ {lastOp'.a}
       /\ Len(StoredAfter) = Cardinality(Ids(StoredAfter))
       /\ OthersKept(Stored, StoredAfter, lastOp'.a)

\* C30: Move(id, k) with 0 <= k <= N-1 keeps the N clips, puts the addressed
\* clip at position k and keeps the relative order and the media, duration and
\* trim values of the others; Move of an unknown id stores nothing and changes
\* nothing; Remove(id) deletes the addressed clip and nothing else and keeps
\* the relative order of the rest
C30_MoveAndRemoveExact ==
    [][MoveInRange /\ MoveUnknown /\ RemoveExact]_vars

\* clip 1 was moved from the front to the last of three positions, behind the
\* trimmed clip 2 and clip 3, which kept their order
C30_Witness ==
    /\ lastOp.op = "Move"
    /\ lastOp.a = 1 /\ lastOp.b = 2
    /\ Len(Stored) = 3
    /\ Stored[1].id = 2 /\ Stored[2].id = 3 /\ Stored[3].id = 1
    /\ Stored[3].position = 2
    /\ Stored[1].trimStart = 300 /\ Stored[2].trimStart = 0

----
\* SceneEditor: the clip list of the state manager as the components hand it
\* to the manager when they render after an Edit Operation.

\* the render after the scene editor changed: the migrated cells are a new
\* array, so useMemo creates a new manager for them; the components subscribe
\* their callbacks to it and the effect of TimelineArea calls updateTimeline
Rendered(w0, cells) ==
    Then(UpdateTimelineState(cells, Nodes), LAMBDA updated :
        Then(Constructed(updated.cells), LAMBDA created :
            UpdateTimeline(
                [created EXCEPT
                    !.subs = w0.subs,
                    !.v.timelineChangeCallbacks = w0.v.timelineChangeCallbacks,
                    !.v.currentTimeChangeCallbacks = w0.v.currentTimeChangeCallbacks,
                    !.v.videoPlayerCallbacks = w0.v.videoPlayerCallbacks],
                updated.cells)))

\* the render of TimelineArea alone: its effect hands the migrated cells to the
\* manager it was given
RenderedArea(w0, cells) ==
    Then(UpdateTimelineState(cells, Nodes), LAMBDA updated :
        UpdateTimeline(w0, updated.cells))

\* an Edit Operation executed from a component, and the render that follows:
\* of the whole SceneEditor, or of TimelineArea alone
Handed(result, op, whole) ==
    /\ phase = "interactive"
    /\ Commit(result)
    /\ \E cells \in {[i \in DOMAIN result.cells |-> result.h[result.cells[i]]]} :
       \E after \in {IF whole THEN Rendered(World, cells)
                               ELSE RenderedArea(World, cells)} :
          /\ vtm' = after.v
          /\ raf' = after.raf
          /\ sinceFrame' = after.since
          /\ subs' = after.subs
          /\ log' = after.log
    /\ lastOp' = op
    /\ UNCHANGED <<ui, phase>>

SceneAdd(mediaNodeId, whole) ==
    /\ nextId <= MaxAdds
    /\ Len(smCells) < MaxClips
    /\ Handed(AddExecute(heap, smCells, nextId, mediaNodeId, 0, FALSE),
              Op("Add", nextId, Undefined, IF whole THEN 1 ELSE 0), whole)
    /\ nextId' = nextId + 1

SceneRemove(cellId, whole) ==
    /\ Handed(RemoveExecute(heap, smCells, cellId),
              Op("Remove", cellId, 0, IF whole THEN 1 ELSE 0), whole)
    /\ UNCHANGED nextId

SceneSeeks == {101, 300, 5000}
SceneDeltas == {199}

NextScene ==
    \/ \E m \in MediaIds, whole \in BOOLEAN : SceneAdd(m, whole)
    \/ \E id \in 1..MaxAdds, whole \in BOOLEAN : SceneRemove(id, whole)
    \/ \E t \in SceneSeeks : DoSetCurrentTime(t)
    \/ \E b \in BOOLEAN : DoSetPlaying(b)
    \/ \E c \in Components : Mount(c)
    \/ \E d \in SceneDeltas : Tick(d)

SpecScene == InitEdit /\ [][NextScene]_vars

\* C31: when a Remove is committed and the new clip list is handed to the
\* manager, the playhead keeps its global time, clamped to the new total
\* duration, and the playing state stays as it was
C31_RemoveKeepsPlayhead ==
    [][lastOp'.op = "Remove" =>
          /\ vtm'.currentTime = Min(vtm.currentTime, vtm'.totalDuration)
          /\ vtm'.playing = vtm.playing]_vars

----
\* The trim gesture: TrimHandles (TimelineControls.tsx), the handlers of
\* TimelineClip and of TimelineArea it calls.

UnitsPerSecond == 10 * MinEffective

\* ZOOM_SCALES: pixels per second
ZoomScale(level) ==
    CASE level = "overview" -> 20
      [] level = "normal" -> 60
      [] level = "detail" -> 120

\* zoomSystem.getTimeFromPixel(pixel); the pixel counts used divide evenly
GetTimeFromPixel(level, pixel) == (pixel * UnitsPerSecond) \div ZoomScale(level)

\* the variant that never caps the pair
ProposedTrimUncapped(cell, handle, dragPixelDelta, level) ==
    LET timeDelta == GetTimeFromPixel(level, Abs(dragPixelDelta))
        towards == IF dragPixelDelta > 0 THEN timeDelta ELSE 0 - timeDelta
    IN  IF handle = "left"
        THEN [trimStart |-> Max(0, OrZero(cell.trimStart) + towards),
              trimEnd |-> OrZero(cell.trimEnd)]
        ELSE [trimStart |-> OrZero(cell.trimStart),
              trimEnd |-> Max(0, OrZero(cell.trimEnd) - towards)]

\* handleMouseMove of TrimHandles up to the callback: the pair it proposes
ProposedTrim(cell, handle, dragPixelDelta, level) ==
    LET timeDelta == GetTimeFromPixel(level, Abs(dragPixelDelta))
        currentTrimStart == OrZero(cell.trimStart)
        currentTrimEnd == OrZero(cell.trimEnd)
        newTrimStart ==
            IF handle = "left"
            THEN Max(0, currentTrimStart
                          + (IF dragPixelDelta > 0 THEN timeDelta ELSE 0 - timeDelta))
            ELSE currentTrimStart
        newTrimEnd ==
            IF handle = "left" THEN currentTrimEnd
            ELSE Max(0, currentTrimEnd
                          + (IF dragPixelDelta > 0 THEN 0 - timeDelta ELSE timeDelta))
        maxTotalTrim == OrZero(cell.duration) - MinEffective
    IN  IF newTrimStart + newTrimEnd > maxTotalTrim
        THEN IF handle = "left"
             THEN [trimStart |-> Max(0, maxTotalTrim - currentTrimEnd),
                   trimEnd |-> newTrimEnd]
             ELSE [trimStart |-> newTrimStart,
                   trimEnd |-> Max(0, maxTotalTrim - currentTrimStart)]
        ELSE [trimStart |-> newTrimStart, trimEnd |-> newTrimEnd]

RECURSIVE InsertByPosition(_, _)
InsertByPosition(sorted, cell) ==
    IF sorted = <<>> THEN <<cell>>
    ELSE IF cell.position < Head(sorted).position THEN <<cell>> \o sorted
    ELSE <<Head(sorted)>> \o InsertByPosition(Tail(sorted), cell)

RECURSIVE SortByPosition(_)
\* [...].sort((a, b) => a.position - b.position), which is stable
SortByPosition(cells) ==
    IF cells = <<>> THEN <<>>
    ELSE InsertByPosition(SortByPosition(SubSeq(cells, 1, Len(cells) - 1)),
                          cells[Len(cells)])

\* migratedSceneEditor.cells of TimelineArea: the list of the state manager
\* as of the last render
MigratedCells == UpdateTimelineState(Stored, Nodes).cells

\* calculateRipplePreview(trimmingClipId, newTrimStart, newTrimEnd); the pixel
\* position of an entry is its newStartTime in pixels and is left out
CalculateRipplePreview(cells, trimmingClipId, newTrimStart, newTrimEnd) ==
    IF trimmingClipId \notin { cells[i].id : i \in DOMAIN cells } THEN NoRipple
    ELSE LET trimmingCell ==
                 cells[CHOOSE i \in DOMAIN cells :
                          /\ cells[i].id = trimmingClipId
                          /\ \A j \in 1..(i - 1) : cells[j].id # trimmingClipId]
             originalTrimStart == OrZero(trimmingCell.trimStart)
             originalTrimEnd == OrZero(trimmingCell.trimEnd)
             subsequentClipAdjustment ==
                 IF newTrimStart > originalTrimStart
                 THEN 0 - (newTrimStart - originalTrimStart)
                 ELSE IF newTrimEnd > originalTrimEnd
                 THEN 0 - (newTrimEnd - originalTrimEnd)
                 ELSE 0
             subsequentCells ==
                 SortByPosition(SelectSeq(cells,
                     LAMBDA c : c.position > trimmingCell.position))
         IN  [isActive |-> TRUE, clipId |-> trimmingClipId,
              ripplePositions |->
                 [i \in DOMAIN subsequentCells |->
                     [clipId |-> subsequentCells[i].id,
                      originalStartTime |-> OrZero(subsequentCells[i].startTime),
                      newStartTime |-> OrZero(subsequentCells[i].startTime)
                                         + subsequentClipAdjustment]]]

\* the time handleTrimUpdateWithPlayhead gives to vtm.setCurrentTime
PlayheadTime(trimmingCell, trimStart, trimEnd, handle) ==
    IF handle = "left" THEN OrZero(trimmingCell.startTime) + trimStart
    ELSE OrZero(trimmingCell.startTime) + OrZero(trimmingCell.duration) - trimEnd

\* handleTrimUpdateWithPlayhead(clipId, trimStart, trimEnd, handle): the call
\* it makes on the manager
TrimUpdateWithPlayhead(w0, cells, clipId, trimStart, trimEnd, handle) ==
    IF clipId \in { cells[i].id : i \in DOMAIN cells }
    THEN SetCurrentTime(w0,
            PlayheadTime(cells[CHOOSE i \in DOMAIN cells :
                                  /\ cells[i].id = clipId
                                  /\ \A j \in 1..(i - 1) : cells[j].id # clipId],
                         trimStart, trimEnd, handle))
    ELSE w0

\* the pre-patch of handleTrimEnd: the cell is copied with the duration of
\* its media and the canvas stored
PatchDuration(h, cells, cell) ==
    LET hit == { i \in DOMAIN cells : h[cells[i]].id = cell.id }
        fresh == [i \in hit |-> Len(h) + Cardinality({ j \in hit : j <= i })]
        h1 == h \o [k \in 1..Cardinality(hit) |->
                      LET i == CHOOSE i \in hit : fresh[i] = Len(h) + k
                      IN  [h[cells[i]] EXCEPT
                              !.duration = GetClipDuration(cell, Nodes)]]
    IN  [h |-> h1,
         cells |-> [i \in DOMAIN cells |-> IF i \in hit THEN fresh[i] ELSE cells[i]],
         stored |-> TRUE]

DragShapes == {<<700, 0, 0>>, <<700, 100, 200>>}
DragPixels == {-9, 0, 3, 30}
MaxPresses == 2

DragTimelines ==
    { MigrateToTimeBasedLayout(RawCells(shapes), Nodes) :
        shapes \in UNION { [1..n -> DragShapes] : n \in 1..MaxTimelineClips } }

\* a canvas with clips, rendered: every TimelineClip holds the trim values of
\* its cell in latestTrimValues
InitDrag ==
    /\ \E cells \in DragTimelines :
          /\ heap = cells
          /\ smCells = [i \in DOMAIN cells |-> i]
          /\ nextId = Len(cells) + 1
          /\ ui = [NoUi EXCEPT !.latestTrimValues =
                      [i \in DOMAIN cells |->
                          [trimStart |-> OrZero(cells[i].trimStart),
                           trimEnd |-> OrZero(cells[i].trimEnd)]]]
          /\ \E w \in {Constructed(cells)} :
                /\ vtm = w.v
                /\ raf = w.raf
                /\ subs = w.subs
                /\ log = w.log
    /\ canvasCells = <<>>
    /\ sinceFrame = 0
    /\ lastOp = Op("init", 0, 0, 0)
    /\ phase = "interactive"

\* handleMouseDown(handle) of the TrimHandles of a clip
TrimMouseDown(clipId, handle) ==
    /\ ui.draggingHandle = "none"
    /\ ui.presses < MaxPresses
    /\ \E i \in DOMAIN MigratedCells :
          /\ MigratedCells[i].id = clipId
          /\ ui' = [ui EXCEPT !.draggingHandle = handle, !.cell = MigratedCells[i],
                              !.presses = @ + 1]
    /\ lastOp' = OpText("trimMouseDown", handle)
    /\ UNCHANGED <<heap, smCells, canvasCells, nextId, vtm, raf, sinceFrame, subs, log,
                   phase>>

\* handleMouseMove of the gesture: the proposal goes to
\* handleTrimUpdateWithPlayhead and then to handleTrimUpdate of the clip
TrimMouseMove(dragPixelDelta) ==
    /\ ui.draggingHandle # "none"
    /\ \E new \in {ProposedTrim(ui.cell, ui.draggingHandle, dragPixelDelta,
                                vtm.zoomSystem)} :
          /\ ui' = [ui EXCEPT
                      !.ripplePreview =
                          CalculateRipplePreview(MigratedCells, ui.cell.id,
                                                 new.trimStart, new.trimEnd),
                      !.latestTrimValues[ui.cell.id] = new]
          /\ \E after \in {TrimUpdateWithPlayhead(World, MigratedCells, ui.cell.id,
                                                  new.trimStart, new.trimEnd,
                                                  ui.draggingHandle)} :
                /\ vtm' = after.v
                /\ raf' = after.raf
                /\ sinceFrame' = after.since
                /\ subs' = after.subs
                /\ log' = after.log
    /\ lastOp' = Op("trimMouseMove", ui.cell.id, dragPixelDelta, 0)
    /\ UNCHANGED <<heap, smCells, canvasCells, nextId, phase>>

\* the variant that dispatches the Trim without comparing the values
TrimMouseUpAlways ==
    /\ ui.draggingHandle # "none"
    /\ \E final \in {ui.latestTrimValues[ui.cell.id]} :
          /\ \E patched \in {PatchDuration(heap, smCells, ui.cell)} :
             \E result \in {TrimExecute(patched.h, patched.cells, ui.cell.id,
                                        final.trimStart, final.trimEnd)} :
                /\ Commit(result)
                /\ \E after \in {RenderedArea(World,
                                   [i \in DOMAIN result.cells |->
                                       result.h[result.cells[i]]])} :
                      /\ vtm' = after.v
                      /\ raf' = after.raf
                      /\ sinceFrame' = after.since
                      /\ subs' = after.subs
                      /\ log' = after.log
          /\ lastOp' = Op("trimMouseUp", ui.cell.id, final.trimStart, final.trimEnd)
    /\ ui' = [ui EXCEPT !.draggingHandle = "none", !.cell = NoCell,
                        !.ripplePreview = NoRipple]
    /\ UNCHANGED <<nextId, phase>>

\* handleMouseUp: handleTrimEnd of the clip dispatches the Trim if the latest
\* values differ from the cell's, and handleTrimEnd of TimelineArea drops the
\* preview; the render this causes hands a changed list to the manager
TrimMouseUp ==
    /\ ui.draggingHandle # "none"
    /\ \E final \in {ui.latestTrimValues[ui.cell.id]} :
          IF final.trimStart # OrZero(ui.cell.trimStart)
                \/ final.trimEnd # OrZero(ui.cell.trimEnd)
          THEN /\ \E patched \in {PatchDuration(heap, smCells, ui.cell)} :
                  \E result \in {TrimExecute(patched.h, patched.cells, ui.cell.id,
                                             final.trimStart, final.trimEnd)} :
                     /\ Commit(result)
                     /\ \E after \in {RenderedArea(World,
                                        [i \in DOMAIN result.cells |->
                                            result.h[result.cells[i]]])} :
                           /\ vtm' = after.v
                           /\ raf' = after.raf
                           /\ sinceFrame' = after.since
                           /\ subs' = after.subs
                           /\ log' = after.log
               /\ lastOp' = Op("trimMouseUp", ui.cell.id, final.trimStart,
                               final.trimEnd)
          ELSE /\ lastOp' = Op("trimMouseUp", 0, 0, 0)
               /\ log' = <<>>
               /\ UNCHANGED <<heap, smCells, canvasCells, vtm, raf, sinceFrame, subs>>
    /\ ui' = [ui EXCEPT !.draggingHandle = "none", !.cell = NoCell,
                        !.ripplePreview = NoRipple]
    /\ UNCHANGED <<nextId, phase>>

NextTrimDrag ==
    \/ \E id \in 1..MaxTimelineClips, handle \in {"left", "right"} :
          TrimMouseDown(id, handle)
    \/ \E px \in DragPixels : TrimMouseMove(px)
    \/ TrimMouseUp

SpecTrimDrag == InitDrag /\ [][NextTrimDrag]_vars

Clamp(x, lo, hi) == Max(lo, Min(x, hi))

\* the pointer delta in time units, positive to the right
PointerSeconds == 
    LET px == lastOp'.b
    IN  IF px > 0 THEN GetTimeFromPixel(vtm.zoomSystem, px)
        ELSE 0 - GetTimeFromPixel(vtm.zoomSystem, 0 - px)

CommittedTrimValid(cell) ==
    /\ OrZero(cell.trimStart) >= 0
    /\ OrZero(cell.trimEnd) >= 0
    /\ OrZero(cell.trimStart) + OrZero(cell.trimEnd) <= OrZero(cell.duration) - MinEffective

\* C32: during a trim drag on a clip whose committed trims are non-negative and
\* leave at least 0.1 s, every proposed pair satisfies the same constraints,
\* only the dragged handle's value differs from the committed pair, and that
\* value is clamp(committed + d, 0, duration - 0.1 - otherTrim), d being the
\* pointer delta in seconds, rightwards for the left handle and leftwards for
\* the right handle.
C32_ProposedTrimClamped ==
    [][(lastOp'.op = "trimMouseMove" /\ CommittedTrimValid(ui.cell)) =>
          LET new == ui'.latestTrimValues[ui.cell.id]
              duration == OrZero(ui.cell.duration)
              ts == OrZero(ui.cell.trimStart)
              te == OrZero(ui.cell.trimEnd)
          IN  /\ new.trimStart >= 0
              /\ new.trimEnd >= 0
              /\ new.trimStart + new.trimEnd <= duration - MinEffective
              /\ IF ui.draggingHandle = "left"
                 THEN /\ new.trimEnd = te
                      /\ new.trimStart =
                            Clamp(ts + PointerSeconds, 0, duration - MinEffective - te)
                 ELSE /\ new.trimStart = ts
                      /\ new.trimEnd =
                            Clamp(te - PointerSeconds, 0, duration - MinEffective - ts)]_vars

\* a drag of the left handle far to the right has been capped at the 0.1 s floor
C32_Witness ==
    /\ lastOp.op = "trimMouseMove"
    /\ lastOp.b = 30
    /\ ui.draggingHandle = "left"
    /\ ui.cell.trimStart = 100
    /\ ui.cell.trimEnd = 200
    /\ ui.latestTrimValues[ui.cell.id] = [trimStart |-> 300, trimEnd |-> 200]

\* the trim values of the stored cells, by id
StoredTrims ==
    { <<Stored[i].id, OrZero(Stored[i].trimStart), OrZero(Stored[i].trimEnd)>> :
        i \in DOMAIN Stored }

StoredTrimsAfter ==
    { <<StoredAfter[i].id, OrZero(StoredAfter[i].trimStart),
        OrZero(StoredAfter[i].trimEnd)>> : i \in DOMAIN StoredAfter }

\* the release has dispatched a Trim
TrimDispatched == lastOp'.op = "trimMouseUp" /\ lastOp'.a # 0

CommittedWith(new) ==
    LET r == TrimExecute(heap, smCells, ui.cell.id, new.trimStart, new.trimEnd)
    IN  [i \in DOMAIN r.cells |-> r.h[r.cells[i]]]

\* C37: during a trim drag, for every clip after the trimmed clip the
\* previewed newStartTime equals the startTime the clip has once the Trim is
\* committed with the proposed values, whether the drag trims more or restores
\* content; clips before the trimmed clip are not in the preview.
C37_RipplePreviewExact ==
    [][lastOp'.op = "trimMouseMove" =>
          LET new == ui'.latestTrimValues[ui.cell.id]
              committed == CommittedWith(new)
              preview == ui'.ripplePreview.ripplePositions
          IN  /\ ui'.ripplePreview.isActive
              /\ \A i \in DOMAIN committed :
                    IF committed[i].position > ui.cell.position
                    THEN \E k \in DOMAIN preview :
                            /\ preview[k].clipId = committed[i].id
                            /\ preview[k].newStartTime = committed[i].startTime
                    ELSE \A k \in DOMAIN preview :
                            preview[k].clipId # committed[i].id]_vars

\* C38: during a trim drag the playhead follows the dragged edge: for the
\* right handle currentTime becomes startTime + duration - trimStart -
\* proposedTrimEnd, for the left handle startTime + (proposedTrimStart -
\* committedTrimStart), in both cases clamped to [0, totalDuration].
C38_PlayheadFollowsEdge ==
    [][lastOp'.op = "trimMouseMove" =>
          LET new == ui'.latestTrimValues[ui.cell.id]
              edge == IF ui.draggingHandle = "right"
                      THEN OrZero(ui.cell.startTime) + OrZero(ui.cell.duration)
                             - OrZero(ui.cell.trimStart) - new.trimEnd
                      ELSE OrZero(ui.cell.startTime)
                             + (new.trimStart - OrZero(ui.cell.trimStart))
          IN  vtm'.currentTime = Clamp(edge, 0, vtm.totalDuration)]_vars

----
\* The rearrange gesture: handleTrimModeMouseDown and handleRearrangeMouseDown
\* of TimelineClip, handleClipDragStart and useRearrangeDragHandler.

CLIP_GAP_PIXELS == 20
CLIP_MIN_WIDTH == 40
\* let currentPixelPosition = 10
TrackMargin == 10
\* the hold timer's movement threshold in pixels
MoveThreshold == 5

\* zoomSystem.getPixelFromTime(seconds)
GetPixelFromTime(level, time) == (time * ZoomScale(level)) \div UnitsPerSecond

\* getEffectiveDuration(cell) of the drag handler
DragEffectiveDuration(cell) ==
    Max(MinEffective, OrZero(cell.duration) - OrZero(cell.trimStart)
                        - OrZero(cell.trimEnd))

RECURSIVE SpacedFrom(_, _, _)
\* the forEach of calculateSpacedPositions from currentPixelPosition on
SpacedFrom(sortedCells, level, currentPixelPosition) ==
    IF sortedCells = <<>> THEN <<>>
    ELSE LET cell == Head(sortedCells)
             clipWidth == Max(GetPixelFromTime(level, DragEffectiveDuration(cell)),
                              CLIP_MIN_WIDTH)
         IN  <<[originalIndex |-> OrZero(cell.position),
                spacedPixelStart |-> currentPixelPosition,
                spacedPixelEnd |-> currentPixelPosition + clipWidth]>>
             \o SpacedFrom(Tail(sortedCells), level,
                           currentPixelPosition + clipWidth + CLIP_GAP_PIXELS)

\* calculateSpacedPositions(cellsToPosition)
CalculateSpacedPositions(cellsToPosition, level) ==
    SpacedFrom(SortByPosition(cellsToPosition), level, TrackMargin)

RECURSIVE NearestGap(_, _, _)
\* the for loop of calculateInsertionPosition from the k-th clip on (i = k - 1)
NearestGap(mouseX, spacedPositions, k) ==
    IF k > Len(spacedPositions) - 1
    THEN [index |-> Len(spacedPositions),
          pixelPosition |-> spacedPositions[Len(spacedPositions)].spacedPixelEnd
                              + CLIP_GAP_PIXELS \div 2]
    ELSE LET currentClip == spacedPositions[k]
             nextClip == spacedPositions[k + 1]
             gapStart == currentClip.spacedPixelEnd
             gapEnd == nextClip.spacedPixelStart
         IN  IF mouseX >= gapStart /\ mouseX <= gapEnd
             THEN [index |-> k, pixelPosition |-> gapStart + (gapEnd - gapStart) \div 2]
             ELSE IF mouseX >= currentClip.spacedPixelStart
                       /\ mouseX <= currentClip.spacedPixelEnd
             THEN IF 2 * mouseX <= currentClip.spacedPixelStart
                                     + currentClip.spacedPixelEnd
                  THEN IF k = 1
                       THEN [index |-> 0, pixelPosition |-> TrackMargin]
                       ELSE [index |-> k - 1,
                             pixelPosition |->
                                spacedPositions[k - 1].spacedPixelEnd
                                  + (currentClip.spacedPixelStart
                                       - spacedPositions[k - 1].spacedPixelEnd) \div 2]
                  ELSE [index |-> k,
                        pixelPosition |->
                           currentClip.spacedPixelEnd
                             + (nextClip.spacedPixelStart
                                  - currentClip.spacedPixelEnd) \div 2]
             ELSE NearestGap(mouseX, spacedPositions, k + 1)

\* calculateInsertionPosition(mouseX, spacedPositions)
CalculateInsertionPosition(mouseX, spacedPositions) ==
    IF spacedPositions = <<>> THEN [index |-> 0, pixelPosition |-> TrackMargin]
    ELSE IF mouseX < spacedPositions[1].spacedPixelStart
    THEN [index |-> 0, pixelPosition |-> TrackMargin]
    ELSE IF mouseX > spacedPositions[Len(spacedPositions)].spacedPixelEnd
    THEN [index |-> Len(spacedPositions),
          pixelPosition |-> spacedPositions[Len(spacedPositions)].spacedPixelEnd
                              + CLIP_GAP_PIXELS \div 2]
    ELSE NearestGap(mouseX, spacedPositions, 1)

\* the variant that hands the gap index to the Move as it is
AdjustedInsertionIndexRaw(index, position) == index

\* adjustedInsertionIndex of handleMouseMove
AdjustedInsertionIndex(index, position) ==
    IF index > position THEN index - 1 ELSE index

\* startRearrangeDrag(clipId, 0, 0) as called by handleClipDragStart: the drag
\* state is set and one more set of listeners is put on the document
StartRearrangeDrag(r, cells, level, clipId) ==
    IF clipId \notin { cells[i].id : i \in DOMAIN cells } THEN r
    ELSE LET draggedCell ==
                 cells[CHOOSE i \in DOMAIN cells :
                          /\ cells[i].id = clipId
                          /\ \A j \in 1..(i - 1) : cells[j].id # clipId]
         IN  [r EXCEPT
                !.dragState = [NoDragState EXCEPT !.isDragging = TRUE,
                                                  !.draggedClipId = clipId],
                !.dragSets = Append(@,
                    [clipId |-> clipId, position |-> draggedCell.position,
                     spacedPositions |-> CalculateSpacedPositions(cells, level)]),
                !.gap = -1,
                !.starts = @ + 1]

\* the x of a press on the body of a clip in the time-based layout
PressX(cell, level) == GetPixelFromTime(level, OrZero(cell.startTime)) + 1

InitRearrange ==
    /\ \E cells \in DragTimelines, level \in ZoomLevels :
          /\ heap = cells
          /\ smCells = [i \in DOMAIN cells |-> i]
          /\ nextId = Len(cells) + 1
          /\ ui = [NoUi EXCEPT !.latestTrimValues =
                      [i \in DOMAIN cells |->
                          [trimStart |-> OrZero(cells[i].trimStart),
                           trimEnd |-> OrZero(cells[i].trimEnd)]]]
          /\ \E w \in {Constructed(cells)} :
                /\ vtm = [w.v EXCEPT !.zoomSystem = level]
                /\ raf = w.raf
                /\ subs = w.subs
                /\ log = w.log
    /\ canvasCells = <<>>
    /\ sinceFrame = 0
    /\ lastOp = Op("init", 0, 0, 0)
    /\ phase = "interactive"

RearrangeQuiet ==
    UNCHANGED <<heap, smCells, canvasCells, nextId, vtm, raf, sinceFrame, subs, log,
                phase>>

\* mousedown on the body of a clip: handleRearrangeMouseDown in rearrange mode,
\* handleTrimModeMouseDown (timer and listeners) in trim mode
ClipMouseDown(clipId) ==
    /\ ui.draggingHandle = "none"
    /\ ui.rearrange.press = "none"
    /\ ui.rearrange.dragSets = <<>>
    /\ ui.presses < MaxPresses
    /\ \E i \in DOMAIN MigratedCells :
          /\ MigratedCells[i].id = clipId
          /\ ui' = [ui EXCEPT
                      !.presses = @ + 1,
                      !.rearrange =
                          IF @.mode = "rearrange"
                          THEN StartRearrangeDrag([@ EXCEPT !.starts = 0],
                                                  MigratedCells, vtm.zoomSystem, clipId)
                          ELSE [@ EXCEPT !.press = "armed", !.pressClip = clipId,
                                         !.startX = PressX(MigratedCells[i],
                                                           vtm.zoomSystem),
                                         !.starts = 0]]
    /\ lastOp' = Op("clipMouseDown", clipId, 0, 0)
    /\ RearrangeQuiet

\* the hold timer of the press fires after 300 ms
HoldTimer ==
    /\ ui.rearrange.press = "armed"
    /\ ui' = [ui EXCEPT !.rearrange =
                 StartRearrangeDrag([@ EXCEPT !.mode = "rearrange", !.press = "held"],
                                    MigratedCells, vtm.zoomSystem, @.pressClip)]
    /\ lastOp' = Op("holdTimer", ui.rearrange.pressClip, 0, 0)
    /\ RearrangeQuiet

\* a mousemove on the document: first the listener of the press, then the
\* sets of the drag handler that were there when the event was dispatched
MouseMoveDispatched(clientX, op) ==
    /\ ui.rearrange.press # "none" \/ ui.rearrange.dragSets # <<>>
    /\ LET r0 == ui.rearrange
           crossed == /\ r0.press \in {"armed", "held"}
                      /\ Abs(clientX - r0.startX) > MoveThreshold
           r1 == IF crossed
                 THEN StartRearrangeDrag([r0 EXCEPT !.mode = "rearrange",
                                                    !.press = "moved"],
                                         MigratedCells, vtm.zoomSystem, r0.pressClip)
                 ELSE r0
           r2 == IF r0.dragSets = <<>> THEN r1
                 ELSE LET set == r0.dragSets[Len(r0.dragSets)]
                          insertion == CalculateInsertionPosition(clientX,
                                                                  set.spacedPositions)
                      IN  [r1 EXCEPT
                             !.dragState.isActuallyMoving = TRUE,
                             !.dragState.insertionIndex =
                                 AdjustedInsertionIndex(insertion.index, set.position),
                             !.dragState.insertionPixelPosition =
                                 insertion.pixelPosition,
                             !.gap = insertion.index]
       IN  ui' = [ui EXCEPT !.rearrange = r2]
    /\ lastOp' = op
    /\ RearrangeQuiet

DocumentMouseMove(clientX) == MouseMoveDispatched(clientX, Op("mouseMove", 0, 0, 0))

\* the same event with the pointer position kept for inspection
DocumentMouseMoveAt(clientX) ==
    MouseMoveDispatched(clientX, Op("mouseMoveAt", clientX, 0, 0))

\* a mouseup on the document: the listener of the press clears the timer; the
\* first set of the drag handler finds the drag state and dispatches the Move,
\* the others find it cleaned up; each set asks to leave rearrange mode
DocumentMouseUp ==
    /\ ui.rearrange.press # "none" \/ ui.rearrange.dragSets # <<>>
    /\ LET r0 == ui.rearrange
           dropped == r0.dragSets # <<>>
           set == r0.dragSets[1]
           moves == /\ dropped
                    /\ r0.dragState.insertionIndex # -1
                    /\ r0.dragState.insertionIndex # set.position
       IN  /\ ui' = [ui EXCEPT !.rearrange =
                        [r0 EXCEPT !.press = "none", !.dragSets = <<>>,
                                   !.dragState = NoDragState,
                                   !.exitPending = @ \/ dropped]]
           /\ IF moves
              THEN /\ \E result \in {MoveExecute(heap, smCells, set.clipId,
                                                 r0.dragState.insertionIndex)} :
                         /\ Commit(result)
                         /\ \E after \in {RenderedArea(World,
                                            [i \in DOMAIN result.cells |->
                                                result.h[result.cells[i]]])} :
                               /\ vtm' = after.v
                               /\ raf' = after.raf
                               /\ sinceFrame' = after.since
                               /\ subs' = after.subs
                               /\ log' = after.log
                   /\ lastOp' = Op("mouseUp", set.clipId, r0.dragState.insertionIndex, 1)
              ELSE /\ lastOp' = Op("mouseUp", 0, 0, 0)
                   /\ log' = <<>>
                   /\ UNCHANGED <<heap, smCells, canvasCells, vtm, raf, sinceFrame, subs>>
    /\ UNCHANGED <<nextId, phase>>

\* the timeout of exitRearrangeMode
ExitTimer ==
    /\ ui.rearrange.exitPending
    /\ ui' = [ui EXCEPT !.rearrange.mode = "trim", !.rearrange.exitPending = FALSE]
    /\ lastOp' = Op("exitTimer", 0, 0, 0)
    /\ RearrangeQuiet

\* pointer positions: the edges, the midpoints and the inside of every clip and
\* gap of the layouts
MouseXs ==
    { x \in 0..(TrackMargin + (MaxTimelineClips + 1) * (CLIP_MIN_WIDTH + CLIP_GAP_PIXELS)) :
        x % 10 \in {0, 1, 2} }

NextRearrange ==
    \/ \E id \in 1..MaxTimelineClips : ClipMouseDown(id)
    \/ HoldTimer
    \/ \E x \in MouseXs : DocumentMouseMove(x)
    \/ DocumentMouseUp
    \/ ExitTimer

SpecRearrange == InitRearrange /\ [][NextRearrange]_vars

\* one press and the pointer positions that follow it
NextInsertion ==
    \/ \E id \in 1..MaxTimelineClips : ClipMouseDown(id)
    \/ HoldTimer
    \/ \E x \in MouseXs : DocumentMouseMoveAt(x)

SpecInsertion == InitRearrange /\ [][NextInsertion]_vars

\* a mousemove has reached a listener set of the drag handler
InsertionComputed == lastOp'.op = "mouseMoveAt" /\ ui.rearrange.dragSets # <<>>

\* C35: for a spaced layout of N >= 1 clips and a pointer x the insertion
\* index is 0 before the first clip, N after the last, i+1 in the gap between
\* clips i and i+1, i in the left half and i+1 in the right half of clip i,
\* the last clip included; the indicator's pixel position is never strictly
\* inside a clip's span.
C35_InsertionIndex ==
    [][InsertionComputed =>
          LET sp == ui.rearrange.dragSets[Len(ui.rearrange.dragSets)].spacedPositions
              N == Len(sp)
              x == lastOp'.a
              index == ui'.rearrange.gap
              pixelPosition == ui'.rearrange.dragState.insertionPixelPosition
          IN  /\ N >= 1
              /\ x < sp[1].spacedPixelStart => index = 0
              /\ x > sp[N].spacedPixelEnd => index = N
              /\ \A k \in 1..(N - 1) :
                    (x >= sp[k].spacedPixelEnd /\ x <= sp[k + 1].spacedPixelStart)
                       => index = k
              /\ \A k \in 1..N :
                    /\ (x >= sp[k].spacedPixelStart
                          /\ 2 * x < sp[k].spacedPixelStart + sp[k].spacedPixelEnd)
                          => index = k - 1
                    /\ (x <= sp[k].spacedPixelEnd
                          /\ 2 * x > sp[k].spacedPixelStart + sp[k].spacedPixelEnd)
                          => index = k
                    /\ ~(sp[k].spacedPixelStart < pixelPosition
                           /\ pixelPosition < sp[k].spacedPixelEnd)]_vars

\* C36: one press on a clip body in trim mode starts the rearrange drag at
\* most once, whichever of the hold timer and the movement threshold comes
\* first and whatever follows; at most one set of drag listeners is on the
\* document at a time.
C36_DragStartedOnce ==
    /\ ui.rearrange.starts <= 1
    /\ Len(ui.rearrange.dragSets) <= 1

StoredIds == [i \in DOMAIN Stored |-> Stored[i].id]
StoredIdsAfter == [i \in DOMAIN StoredAfter |-> StoredAfter[i].id]

\* the order with the clip taken out and put into the gap after the first g
\* clips of the list
PutIntoGap(ids, id, g) ==
    SelectSeq(SubSeq(ids, 1, g), LAMBDA c : c # id)
      \o <<id>>
      \o SelectSeq(SubSeq(ids, g + 1, Len(ids)), LAMBDA c : c # id)

----
\* The player instructions over edited timelines.

PlayerTrims == {<<0, 0>>, <<600, 0>>}

\* the Trim operation dispatched and the new list handed to the manager
SceneTrim(cellId, trimStart, trimEnd) ==
    /\ Handed(TrimExecute(heap, smCells, cellId, trimStart, trimEnd),
              Op("Trim", cellId, trimStart, trimEnd), FALSE)
    /\ UNCHANGED nextId

\* the Move operation dispatched and the new list handed to the manager
SceneMove(cellId, newPosition) ==
    /\ Handed(MoveExecute(heap, smCells, cellId, newPosition),
              Op("Move", cellId, newPosition, 0), FALSE)
    /\ UNCHANGED nextId

NextPlayer ==
    \/ \E id \in 1..MaxTimelineClips, t \in PlayerTrims : SceneTrim(id, t[1], t[2])
    \/ \E id \in 1..MaxTimelineClips, p \in 0..(MaxTimelineClips - 1) : SceneMove(id, p)
    \/ \E id \in 1..MaxTimelineClips : SceneRemove(id, FALSE)
    \/ \E t \in SceneSeeks : DoSetCurrentTime(t)
    \/ \E b \in BOOLEAN : DoSetPlaying(b)
    \/ \E c \in Components : Mount(c)
    \/ \E d \in SceneDeltas : Tick(d)

SpecPlayer == InitDrag /\ [][NextPlayer]_vars

\* the instructions the last step has emitted: seekTime with the clip the
\* manager found at the time of the notification
EmittedInstructions ==
    { [seekTime |-> log[k].arg,
       position |-> GlobalTimeToClipPosition(
                       [vtm EXCEPT !.currentTime = log[k].currentTime,
                                   !.totalDuration = log[k].totalDuration],
                       log[k].currentTime)] :
        k \in { j \in DOMAIN log : log[j].ch = "player"
                                     /\ log[j].kind \in {"notify", "call"} } }

\* C39: every player instruction with a clip has 0 <= seekTime <=
\* effectiveDuration(clip), and the source position seekTime + trimStart lies
\* in the untrimmed part [trimStart, duration - trimEnd] of the source.
C39_InstructionWithinSource ==
    \A ins \in EmittedInstructions :
       ins.position.clipIndex # -1 =>
          LET clip == vtm.cells[ins.position.clipIndex + 1]
              source == ins.seekTime + OrZero(clip.trimStart)
          IN  /\ 0 <= ins.seekTime
              /\ ins.seekTime <= VtmGetEffectiveDuration(clip)
              /\ OrZero(clip.trimStart) <= source
              /\ source <= OrZero(clip.duration) - OrZero(clip.trimEnd)

----
\* validateClipMove

RECURSIVE CheckOverlaps(_, _, _, _)
\* the for loop over otherClips: the conflicts and the suggested time so far
CheckOverlaps(otherClips, newStartTime, newEndTime, acc) ==
    IF otherClips = <<>> THEN acc
    ELSE LET otherClip == Head(otherClips)
             otherStart == OrZero(otherClip.startTime)
             otherEnd == otherStart + VtmGetEffectiveDuration(otherClip)
             overlapsStart == newStartTime < otherEnd /\ newEndTime > otherStart
         IN  CheckOverlaps(Tail(otherClips), newStartTime, newEndTime,
                IF overlapsStart
                THEN [conflicts |-> Append(acc.conflicts, otherClip.id),
                      suggestedTime |-> Max(acc.suggestedTime, otherEnd)]
                ELSE acc)

\* validateClipMove(clipId, newStartTime); the two messages that name no clip
\* are the conflict entries 0 (clip not found) and -1 (negative start time)
ValidateClipMove(v, clipId, newStartTime) ==
    IF clipId \notin { v.cells[i].id : i \in DOMAIN v.cells }
    THEN [valid |-> FALSE, suggestedTime |-> -1, conflicts |-> <<0>>]
    ELSE IF newStartTime < 0
    THEN [valid |-> FALSE, suggestedTime |-> 0, conflicts |-> <<-1>>]
    ELSE LET movingClip ==
                 v.cells[CHOOSE i \in DOMAIN v.cells :
                            /\ v.cells[i].id = clipId
                            /\ \A j \in 1..(i - 1) : v.cells[j].id # clipId]
             newEndTime == newStartTime + VtmGetEffectiveDuration(movingClip)
             found == CheckOverlaps(SelectSeq(v.cells, LAMBDA c : c.id # clipId),
                                    newStartTime, newEndTime,
                                    [conflicts |-> <<>>, suggestedTime |-> newStartTime])
         IN  [valid |-> found.conflicts = <<>>,
              suggestedTime |-> IF found.conflicts # <<>> THEN found.suggestedTime
                                ELSE -1,
              conflicts |-> found.conflicts]

ValidateShapes == {<<300, 0, 0>>, <<700, 100, 200>>}

ValidateTimelines ==
    { MigrateToTimeBasedLayout(RawCells(shapes), Nodes) :
        shapes \in UNION { [1..n -> ValidateShapes] : n \in 1..MaxClips } }

ValidateTimes == {-100, 0, 200, 300, 400, 700, 1100}

InitValidate ==
    /\ heap = <<>>
    /\ smCells = <<>>
    /\ canvasCells = <<>>
    /\ sinceFrame = 0
    /\ ui = NoUi
    /\ nextId = 1
    /\ \E initialCells \in ValidateTimelines :
          \E w \in {Constructed(initialCells)} :
              /\ vtm = w.v
              /\ raf = w.raf
              /\ subs = w.subs
              /\ log = w.log
    /\ lastOp = Op("init", 0, 0, 0)
    /\ phase = "interactive"

\* virtualTimeline.validateClipMove(clipId, newStartTime)
QueryValidateClipMove(clipId, newStartTime) ==
    /\ ui' = [ui EXCEPT !.validation = ValidateClipMove(vtm, clipId, newStartTime)]
    /\ lastOp' = Op("validateClipMove", clipId, newStartTime, 0)
    /\ log' = <<>>
    /\ UNCHANGED <<heap, smCells, canvasCells, nextId, vtm, raf, sinceFrame, subs, phase>>

NextValidate ==
    \/ \E id \in 1..(MaxClips + 1), t \in ValidateTimes : QueryValidateClipMove(id, t)
    \/ \E c \in Components : Mount(c)

SpecValidate == InitValidate /\ [][NextValidate]_vars

\* [start, end) of the clip with start time t and of another clip overlap
OverlapsOther(other, t, length) ==
    /\ t < OrZero(other.startTime) + VtmGetEffectiveDuration(other)
    /\ t + length > OrZero(other.startTime)

\* C40: validateClipMove of an existing clip to a time >= 0 changes no manager
\* state and notifies nobody; it returns valid with no suggestedTime exactly
\* when the moved interval overlaps no other clip (touching is no overlap);
\* otherwise it returns invalid with one conflict entry per overlapped clip and
\* suggestedTime equal to the end of the first conflicting clip in timeline
\* order.
C40_ValidateClipMove ==
    [][(/\ lastOp'.op = "validateClipMove"
        /\ lastOp'.b >= 0
        /\ lastOp'.a \in { vtm.cells[i].id : i \in DOMAIN vtm.cells }) =>
          LET id == lastOp'.a
              t == lastOp'.b
              clip == ClipOf(vtm.cells, id)
              length == VtmGetEffectiveDuration(clip)
              overlapped == SelectSeq(vtm.cells,
                               LAMBDA c : c.id # id /\ OverlapsOther(c, t, length))
              result == ui'.validation
          IN  /\ vtm' = vtm
              /\ subs' = subs
              /\ raf' = raf
              /\ log' = <<>>
              /\ result.valid <=> overlapped = <<>>
              /\ result.valid => result.suggestedTime = -1
              /\ ~result.valid =>
                    /\ result.conflicts = [i \in DOMAIN overlapped |-> overlapped[i].id]
                    /\ result.suggestedTime =
                          OrZero(overlapped[1].startTime)
                            + VtmGetEffectiveDuration(overlapped[1])]_vars
====
